---------------------------- MODULE Spec2Model ----------------------------
(***************************************************************************)
(* The Memory Manager orchestration core of Stream29/MemoryManager:        *)
(* the list-backed memory repository (src/memory/in_memory.py), the        *)
(* immutable MemoryManager snapshots (src/memory/manager.py) and the       *)
(* oracle exchanges they are built on (src/memory_server/llm_ability.py).  *)
(*                                                                         *)
(* Python lists and dicts are objects that snapshots hold by reference:    *)
(* `lists` and `maps` are the heap, a snapshot is a pair of references.    *)
(* Every manager operation is one action: it runs the whole coroutine,     *)
(* with the oracle's replies as its nondeterministic input.                *)
(***************************************************************************)
EXTENDS Integers, Sequences, FiniteSets, TLC

VARIABLES
    store,      \* InMemoryMemoryRepository._delegate: the list of stored memories
    lists,      \* heap of list objects: lists[r] is the content of list object r
    maps,       \* heap of dict objects: maps[r] is the content of dict object r
    snapshots,  \* the MemoryManager instances constructed or returned so far
    call        \* the last operation invoked, its arguments and its outcome

vars == <<store, lists, maps, snapshots, call>>

(***************************************************************************)
(* Bounds of the model.                                                    *)
(***************************************************************************)
Names == {"A", "B", "C"}

\* Operations invoked in one behaviour, and how many of them may be
\* oracle-driven.
MaxCalls == 2
MaxOracleCalls == 1
\* Longest list in one oracle reply.
MaxListed == 2
\* Items (listed names, proposed memories, failed exchanges) over the three
\* discovery exchanges of one full_update.
MaxOracleItems == 2
\* Largest limit passed to refresh_visible_memory_list.
MaxLimit == 4

\* Calls on the repository in one behaviour of the repository alone.
MaxRepoCalls == 3
\* Longest oracle response text, in tokens.
MaxRawLen == 6
\* Most items in one reply of the oracle of which a call may never return.
MaxLiveListed == 1

\* The deltas a caller supplies: any integer is accepted.
Deltas == {-1, 2, 3}
Limits == {-1} \cup (0..MaxLimit)

SeqsUpTo(S, n) == UNION {[1..k -> S] : k \in 0..n}

(***************************************************************************)
(* memory/model.py                                                         *)
(***************************************************************************)
Memory(name, abstract, memory_block) ==
    [name |-> name, abstract |-> abstract, memory_block |-> memory_block]

MemoryAbstract(name, abstract) == [name |-> name, abstract |-> abstract]

\* Memory.__eq__: two memories are equal iff their names are.
MemoryEq(a, b) == a.name = b.name

\* The absent value of fetch_memory_by_name.
None == Memory("", "", "")

\* Memories the repository is constructed with, memories a caller or the
\* oracle supplies, and the block an UpdateSingleMemory exchange returns.
StoredMemory(n) == Memory(n, "abstract0", "block0")
InputMemory(n) == Memory(n, "abstract1", "block1")
InputMemories == {InputMemory(n) : n \in Names}
UpdatedBlock == "block2"

(***************************************************************************)
(* Python list and dict primitives used by the code.                       *)
(***************************************************************************)
\* `memory in l`
ListContains(l, memory) == \E i \in 1..Len(l) : MemoryEq(l[i], memory)

\* index of the first element equal to memory (0 if there is none)
ListIndex(l, memory) ==
    IF ListContains(l, memory)
    THEN CHOOSE i \in 1..Len(l) :
            /\ MemoryEq(l[i], memory)
            /\ \A j \in 1..(i - 1) : ~MemoryEq(l[j], memory)
    ELSE 0

\* l.remove(memory) where memory is in l: drops the first equal element
ListRemove(l, memory) ==
    LET i == ListIndex(l, memory)
    IN  [j \in 1..(Len(l) - 1) |-> IF j < i THEN l[j] ELSE l[j + 1]]

\* l[:limit]
SliceTo(l, limit) ==
    LET stop == IF limit < 0
                THEN (IF Len(l) + limit < 0 THEN 0 ELSE Len(l) + limit)
                ELSE (IF limit > Len(l) THEN Len(l) ELSE limit)
    IN  SubSeq(l, 1, stop)

\* d.get(name, 0)
Get(d, name) == IF name \in DOMAIN d THEN d[name] ELSE 0

EmptyMap == [n \in {} |-> 0]

(***************************************************************************)
(* memory/in_memory.py: InMemoryMemoryRepository.  Each operation returns  *)
(* the new content of _delegate and whether it raised ValueError.          *)
(***************************************************************************)
\* __add_memory_impl without `if memory in self._delegate: raise`
add_memory_impl_unchecked(delegate, memory) ==
    [raised |-> FALSE, store |-> Append(delegate, memory)]

add_memory_impl(delegate, memory) ==
    IF ListContains(delegate, memory)
    THEN [raised |-> TRUE, store |-> delegate]
    ELSE [raised |-> FALSE, store |-> Append(delegate, memory)]

\* add_memory as an upsert: a record of the same name is replaced
add_memory_upsert(delegate, memory) ==
    IF ListContains(delegate, memory)
    THEN [raised |-> FALSE, store |-> Append(ListRemove(delegate, memory), memory)]
    ELSE [raised |-> FALSE, store |-> Append(delegate, memory)]

add_memory(delegate, memory) == add_memory_impl(delegate, memory)

remove_memory(delegate, memory) ==
    IF ~ListContains(delegate, memory)
    THEN [raised |-> TRUE, store |-> delegate]
    ELSE [raised |-> FALSE, store |-> ListRemove(delegate, memory)]

\* update_memory that removes the old record and stores nothing in its place
update_memory_remove_only(delegate, memory) ==
    IF ~ListContains(delegate, memory)
    THEN [raised |-> TRUE, store |-> delegate]
    ELSE [raised |-> FALSE, store |-> ListRemove(delegate, memory)]

\* update_memory that overwrites the record where it is: the listing order
\* of the store is kept
update_memory_at_its_place(delegate, memory) ==
    IF ~ListContains(delegate, memory)
    THEN [raised |-> TRUE, store |-> delegate]
    ELSE [raised |-> FALSE,
          store |-> [j \in 1..Len(delegate) |->
                        IF j = ListIndex(delegate, memory) THEN memory ELSE delegate[j]]]

update_memory(delegate, memory) ==
    IF ~ListContains(delegate, memory)
    THEN [raised |-> TRUE, store |-> delegate]
    ELSE add_memory_impl(ListRemove(delegate, memory), memory)

fetch_memory_by_name(delegate, name) ==
    IF \E i \in 1..Len(delegate) : delegate[i].name = name
    THEN delegate[CHOOSE i \in 1..Len(delegate) :
                    /\ delegate[i].name = name
                    /\ \A j \in 1..(i - 1) : delegate[j].name # name]
    ELSE None

\* memory_server/in_memory.py: remove_memory_by_name removes
\* `[memory for memory in self._delegate if memory.name == name][0]`; the
\* subscript raises IndexError when no stored memory has the name.
remove_memory_by_name(delegate, name) ==
    LET found == {i \in 1..Len(delegate) : delegate[i].name = name}
    IN  IF found = {}
        THEN [raised |-> TRUE, error |-> "IndexError", store |-> delegate]
        ELSE LET first == CHOOSE i \in found : \A j \in found : i <= j
             IN  [raised |-> FALSE, error |-> "",
                  store |-> ListRemove(delegate, delegate[first])]

fetch_all_memories_abstract(delegate) ==
    [i \in 1..Len(delegate) |-> MemoryAbstract(delegate[i].name, delegate[i].abstract)]

RECURSIVE InMemoryMemoryRepository(_)
\* __init__: adds the given memories one by one to an empty list
InMemoryMemoryRepository(delegate) ==
    IF delegate = <<>>
    THEN <<>>
    ELSE add_memory_impl(InMemoryMemoryRepository(SubSeq(delegate, 1, Len(delegate) - 1)),
                         delegate[Len(delegate)]).store

(***************************************************************************)
(* memory/manager.py: MemoryManager.  A manager value carries the content  *)
(* of its visible list and relevance map together with the references of   *)
(* the objects holding them (0: an object this operation has created).     *)
(* An operation returns [raised, manager, store].                          *)
(***************************************************************************)
\* __init__: keeps the list it is given; `relevance_map or {}` keeps the
\* dict it is given unless that dict is empty.
MemoryManager(visible_memories, visible_ref, relevance_map, relevance_ref) ==
    [visible_memories |-> visible_memories,
     visible_ref      |-> visible_ref,
     relevance_map    |-> relevance_map,
     relevance_ref    |-> IF DOMAIN relevance_map = {} THEN 0 ELSE relevance_ref]

Returned(manager, delegate) == [raised |-> FALSE, manager |-> manager, store |-> delegate]
Raised(self, delegate) == [raised |-> TRUE, manager |-> self, store |-> delegate]


\* force_add_memory without the check of the visible names: the repository's
\* own duplicate check is all that is left.
force_add_memory_unchecked(self, delegate, memory) ==
    LET r == add_memory(delegate, memory)
    IN  IF r.raised
        THEN Raised(self, r.store)
        ELSE Returned(MemoryManager(Append(self.visible_memories, memory), 0,
                                    self.relevance_map, self.relevance_ref),
                      r.store)

force_add_memory(self, delegate, memory) ==
    IF \E i \in 1..Len(self.visible_memories) : self.visible_memories[i].name = memory.name
    THEN Raised(self, delegate)
    ELSE LET r == add_memory(delegate, memory)
         IN  IF r.raised
             THEN Raised(self, r.store)
             ELSE Returned(MemoryManager(Append(self.visible_memories, memory), 0,
                                         self.relevance_map, self.relevance_ref),
                           r.store)

\* force_update_relevance_map that builds the new map from delta_map alone:
\* the names that are not in delta_map are dropped
force_update_relevance_map_delta_only(self, delegate, delta_map) ==
    LET new_relevance_map == [n \in DOMAIN delta_map |-> delta_map[n] + delta_map[n]]
    IN  Returned(MemoryManager(self.visible_memories, self.visible_ref, new_relevance_map, 0),
                 delegate)

force_update_relevance_map(self, delegate, delta_map) ==
    LET merged == [n \in (DOMAIN self.relevance_map) \cup (DOMAIN delta_map) |->
                      IF n \in DOMAIN delta_map THEN delta_map[n] ELSE self.relevance_map[n]]
        new_relevance_map ==
                  [n \in DOMAIN merged |->
                      IF n \in DOMAIN delta_map THEN merged[n] + delta_map[n] ELSE merged[n]]
    IN  Returned(MemoryManager(self.visible_memories, self.visible_ref, new_relevance_map, 0),
                 delegate)


\* force_update_memory that writes to the repository first and looks at the
\* visible list afterwards
force_update_memory_store_first(self, delegate, memory) ==
    LET r == update_memory(delegate, memory)
    IN  IF r.raised \/ ~ListContains(self.visible_memories, memory)
        THEN Raised(self, r.store)
        ELSE Returned(MemoryManager(Append(ListRemove(self.visible_memories, memory), memory),
                                    0, self.relevance_map, self.relevance_ref),
                      r.store)

\* force_update_memory that replaces the visible entry and does not call the
\* repository
force_update_memory_visible_only(self, delegate, memory) ==
    IF ~ListContains(self.visible_memories, memory)
    THEN Raised(self, delegate)
    ELSE Returned(MemoryManager(Append(ListRemove(self.visible_memories, memory), memory),
                                0, self.relevance_map, self.relevance_ref),
                  delegate)

\* force_update_memory without the copy `[*self.visible_memories]`: the
\* remove and the append act on the list of the invoking snapshot.
force_update_memory_in_place(self, delegate, memory) ==
    IF ~ListContains(self.visible_memories, memory)
    THEN Raised(self, delegate)
    ELSE LET new_visible_memories == Append(ListRemove(self.visible_memories, memory), memory)
             r == update_memory(delegate, memory)
         IN  IF r.raised
             THEN Raised(self, r.store)
             ELSE Returned(MemoryManager(new_visible_memories, self.visible_ref,
                                         self.relevance_map, self.relevance_ref),
                           r.store)

force_update_memory(self, delegate, memory) ==
    IF ~ListContains(self.visible_memories, memory)
    THEN Raised(self, delegate)
    ELSE LET new_visible_memories == Append(ListRemove(self.visible_memories, memory), memory)
             r == update_memory(delegate, memory)
         IN  IF r.raised
             THEN Raised(self, r.store)
             ELSE Returned(MemoryManager(new_visible_memories, 0,
                                         self.relevance_map, self.relevance_ref),
                           r.store)


RECURSIVE sorted_ties_reversed(_, _)
\* a descending sort that is not stable: sorted(...) ascending, then reversed
sorted_ties_reversed(all_memories, relevance_map) ==
    IF all_memories = <<>>
    THEN <<>>
    ELSE LET n    == Len(all_memories)
             x    == all_memories[n]
             rest == sorted_ties_reversed(SubSeq(all_memories, 1, n - 1), relevance_map)
             k    == Cardinality({i \in 1..Len(rest) :
                        Get(relevance_map, rest[i].name) > Get(relevance_map, x.name)})
         IN  SubSeq(rest, 1, k) \o <<x>> \o SubSeq(rest, k + 1, Len(rest))

RECURSIVE sorted(_, _)
\* sorted(all_memories, key=relevance count, reverse=True): a stable sort, so
\* abstracts with equal counts keep their order; each abstract is inserted
\* behind the abstracts before it whose count is not smaller.
sorted(all_memories, relevance_map) ==
    IF all_memories = <<>>
    THEN <<>>
    ELSE LET n    == Len(all_memories)
             x    == all_memories[n]
             rest == sorted(SubSeq(all_memories, 1, n - 1), relevance_map)
             k    == Cardinality({i \in 1..Len(rest) :
                        Get(relevance_map, rest[i].name) >= Get(relevance_map, x.name)})
         IN  SubSeq(rest, 1, k) \o <<x>> \o SubSeq(rest, k + 1, Len(rest))

\* `visible_memories.append(memory)` without the test of what was fetched
append_if_found_unchecked(visible_memories, memory) == Append(visible_memories, memory)

\* `if memory: visible_memories.append(memory)`
append_if_found(visible_memories, memory) ==
    IF memory # None THEN Append(visible_memories, memory) ELSE visible_memories

RECURSIVE fetch_visible(_, _)
\* the loop that fetches the full memory of every selected abstract
fetch_visible(top_memories, delegate) ==
    IF top_memories = <<>>
    THEN <<>>
    ELSE LET n      == Len(top_memories)
             before == fetch_visible(SubSeq(top_memories, 1, n - 1), delegate)
             memory == fetch_memory_by_name(delegate, top_memories[n].name)
         IN  append_if_found(before, memory)

\* refresh_visible_memory_list that starts from the visible list it has: the
\* memories that were visible and are not selected stay, behind the selected
refresh_visible_memory_list_keeps_visible(self, delegate, limit) ==
    LET all_memories == fetch_all_memories_abstract(delegate)
        sorted_memories == sorted(all_memories, self.relevance_map)
        top_memories == SliceTo(sorted_memories, limit)
        selected == fetch_visible(top_memories, delegate)
        kept == SelectSeq(self.visible_memories, LAMBDA m : ~ListContains(selected, m))
    IN  Returned(MemoryManager(selected \o kept, 0,
                               self.relevance_map, self.relevance_ref),
                 delegate)

refresh_visible_memory_list(self, delegate, limit) ==
    LET all_memories == fetch_all_memories_abstract(delegate)
        sorted_memories == sorted(all_memories, self.relevance_map)
        top_memories == SliceTo(sorted_memories, limit)
    IN  Returned(MemoryManager(fetch_visible(top_memories, delegate), 0,
                               self.relevance_map, self.relevance_ref),
                 delegate)

(***************************************************************************)
(* memory_server/llm_ability.py: LlmAbility.  A reply is what              *)
(* _structured_generate hands back for one exchange: the validated         *)
(* response, or the failure of the exchange (generate raised, or           *)
(* _safe_cast found no JSON object of the expected schema).                *)
(***************************************************************************)
Reply(value) == [ok |-> TRUE, value |-> value]
Failure == [ok |-> FALSE, value |-> <<>>]
\* the failure of an exchange whose response carries a string
FailureStr == [ok |-> FALSE, value |-> ""]

\* The text of an oracle response, token by token: the braces, "s" for a
\* member with a string value ("key": "text"), "k" for the key of a member
\* whose value is the object that follows ("key": {...}), and "x" for any
\* other text.
Chars == {"{", "}", "s", "k", "x"}

\* re.search(r'\{.*?}', value, re.DOTALL): the shortest match
re_search_non_greedy(value) ==
    LET starts == {i \in 1..Len(value) :
                      value[i] = "{" /\ \E j \in (i + 1)..Len(value) : value[j] = "}"}
    IN  IF starts = {}
        THEN [found |-> FALSE, group |-> <<>>]
        ELSE LET i == CHOOSE a \in starts : \A b \in starts : a <= b
                 ends == {j \in (i + 1)..Len(value) : value[j] = "}"}
                 j == CHOOSE a \in ends : \A b \in ends : a <= b
             IN  [found |-> TRUE, group |-> SubSeq(value, i, j)]

\* re.search(r'\{.*}', value, re.DOTALL): the leftmost position where a match
\* starts, and from there the longest match (`.*` is greedy)
re_search(value) ==
    LET starts == {i \in 1..Len(value) :
                      value[i] = "{" /\ \E j \in (i + 1)..Len(value) : value[j] = "}"}
    IN  IF starts = {}
        THEN [found |-> FALSE, group |-> <<>>]
        ELSE LET i == CHOOSE a \in starts : \A b \in starts : a <= b
                 ends == {j \in (i + 1)..Len(value) : value[j] = "}"}
                 j == CHOOSE a \in ends : \A b \in ends : a >= b
             IN  [found |-> TRUE, group |-> SubSeq(value, i, j)]

RECURSIVE parse_object(_, _)
RECURSIVE parse_members(_, _, _)
\* json.loads, the object starting at text[i].  The model's members all have
\* the same key, so the dict a parse returns holds the value of the last
\* member: <<>> is {}, <<"s">> is {key: "text"}, <<"k">> \o d is {key: d}.
parse_object(text, i) ==
    IF i > Len(text) \/ text[i] # "{"
    THEN [ok |-> FALSE, next |-> 0, value |-> <<>>]
    ELSE parse_members(text, i + 1, <<>>)

\* the members of an object up to its closing brace; last is the dict so far
parse_members(text, j, last) ==
    IF j > Len(text)
    THEN [ok |-> FALSE, next |-> 0, value |-> <<>>]
    ELSE CASE text[j] = "}" -> [ok |-> TRUE, next |-> j + 1, value |-> last]
           [] text[j] = "s" -> parse_members(text, j + 1, <<"s">>)
           [] text[j] = "k" ->
                LET r == parse_object(text, j + 1)
                IN  IF r.ok
                    THEN parse_members(text, r.next, <<"k">> \o r.value)
                    ELSE [ok |-> FALSE, next |-> 0, value |-> <<>>]
           [] OTHER -> [ok |-> FALSE, next |-> 0, value |-> <<>>]

\* json.loads(safe_string): one object and nothing after it
json_loads(safe_string) ==
    LET r == parse_object(safe_string, 1)
    IN  IF r.ok /\ r.next = Len(safe_string) + 1
        THEN [ok |-> TRUE, value |-> r.value]
        ELSE [ok |-> FALSE, value |-> <<>>]

\* target_type.model_validate(json_data): UpdateSingleMemoryResponse needs a
\* field with a string, CreateNewMemoriesResponse a field with records of
\* string fields.
model_validate(target_type, json_data) ==
    CASE target_type = "UpdateSingleMemoryResponse" ->
            [ok |-> json_data = <<"s">>, value |-> json_data]
      [] target_type = "CreateNewMemoriesResponse" ->
            [ok |-> json_data = <<"k", "s">>, value |-> json_data]

_safe_cast(target_type, value) ==
    LET match == re_search(value)
    IN  IF ~match.found
        THEN [ok |-> FALSE, error |-> "ValueError", value |-> <<>>]
        ELSE LET json_data == json_loads(match.group)
             IN  IF ~json_data.ok
                 THEN [ok |-> FALSE, error |-> "JSONDecodeError", value |-> <<>>]
                 ELSE LET validated == model_validate(target_type, json_data.value)
                      IN  IF ~validated.ok
                          THEN [ok |-> FALSE, error |-> "ValidationError", value |-> <<>>]
                          ELSE [ok |-> TRUE, error |-> "", value |-> validated.value]

\* _structured_generate: one call of generate, whose response is cast
_structured_generate(response_type, response_str) ==
    _safe_cast(response_type, response_str) @@ [generate_calls |-> 1]


\* update_memory building the record from the reply alone: the new block
\* also takes the place of the abstract.
update_memory_llm_abstract_lost(old_memory, reply) ==
    IF ~reply.ok
    THEN Failure
    ELSE Reply(Memory(old_memory.name, reply.value, reply.value))

\* update_memory: the old name and abstract with the reply's new_memory_block
update_memory_llm(old_memory, reply) ==
    IF ~reply.ok
    THEN Failure
    ELSE Reply(Memory(old_memory.name, old_memory.abstract, reply.value))

\* list_memory_to_update mapping over the reply: one abstract for every
\* listed name, in the order of the reply, a repeated name repeated and an
\* unknown name with an empty abstract.
list_memory_to_update_per_listed_name(current_memory, reply) ==
    IF ~reply.ok
    THEN Failure
    ELSE LET abstract_of(n) ==
                 IF \E i \in 1..Len(current_memory) : current_memory[i].name = n
                 THEN (CHOOSE m \in {current_memory[i] : i \in 1..Len(current_memory)} :
                          m.name = n).abstract
                 ELSE ""
         IN  Reply([i \in 1..Len(reply.value) |->
                      MemoryAbstract(reply.value[i], abstract_of(reply.value[i]))])

\* list_memory_to_update: the current abstracts whose name the reply lists
list_memory_to_update(current_memory, reply) ==
    IF ~reply.ok
    THEN Failure
    ELSE LET listed == {reply.value[i] : i \in 1..Len(reply.value)}
             keep == {i \in 1..Len(current_memory) : current_memory[i].name \in listed}
             nth(k) == CHOOSE i \in keep : Cardinality({j \in keep : j < i}) = k - 1
         IN  Reply([k \in 1..Cardinality(keep) |-> current_memory[nth(k)]])

\* extract_new_memories: the reply's new_memories
extract_new_memories_llm(current_memories, reply) ==
    IF ~reply.ok THEN Failure ELSE Reply(reply.value)

\* list_related_memories: one abstract for every name of the reply's
\* associated_memories
list_related_memories(current_memories, reply) ==
    IF ~reply.ok
    THEN Failure
    ELSE LET abstract_of(n) ==
                 IF \E i \in 1..Len(current_memories) : current_memories[i].name = n
                 THEN (CHOOSE m \in {current_memories[i] : i \in 1..Len(current_memories)} :
                          m.name = n).abstract
                 ELSE ""
         IN  Reply([i \in 1..Len(reply.value) |->
                      MemoryAbstract(reply.value[i], abstract_of(reply.value[i]))])

(***************************************************************************)
(* memory/manager.py: the oracle-driven operations.                        *)
(***************************************************************************)
_get_updated_memory(delegate, memory_abstract, single_replies) ==
    LET old_memory == fetch_memory_by_name(delegate, memory_abstract.name)
    IN  IF old_memory = None
        THEN Failure
        ELSE update_memory_llm(old_memory, single_replies[memory_abstract.name])


\* gather(..., return_exceptions=True) with the failed members dropped: the
\* updates that succeeded are kept.
_get_updated_memories_best_effort(delegate, current_memories, to_update_reply, single_replies) ==
    LET memories_to_update == list_memory_to_update(current_memories, to_update_reply)
    IN  IF ~memories_to_update.ok
        THEN Failure
        ELSE LET updated == [i \in 1..Len(memories_to_update.value) |->
                               _get_updated_memory(delegate, memories_to_update.value[i],
                                                   single_replies)]
                 good == {i \in 1..Len(updated) : updated[i].ok}
                 nth(k) == CHOOSE i \in good : Cardinality({j \in good : j < i}) = k - 1
             IN  Reply([k \in 1..Cardinality(good) |-> updated[nth(k)].value])

\* gather over _get_updated_memory: fails if one member fails
_get_updated_memories(delegate, current_memories, to_update_reply, single_replies) ==
    LET memories_to_update == list_memory_to_update(current_memories, to_update_reply)
    IN  IF ~memories_to_update.ok
        THEN Failure
        ELSE LET updated == [i \in 1..Len(memories_to_update.value) |->
                               _get_updated_memory(delegate, memories_to_update.value[i],
                                                   single_replies)]
             IN  IF \E i \in 1..Len(updated) : ~updated[i].ok
                 THEN Failure
                 ELSE Reply([i \in 1..Len(updated) |-> updated[i].value])

RECURSIVE add_each_caught(_, _, _)
\* full_update: `for new_memory in new_memories: try force_add_memory except ValueError`
add_each_caught(manager, delegate, new_memories) ==
    IF new_memories = <<>>
    THEN Returned(manager, delegate)
    ELSE LET r == force_add_memory(manager, delegate, Head(new_memories))
         IN  add_each_caught(r.manager, r.store, Tail(new_memories))

RECURSIVE update_each_caught(_, _, _)
\* full_update: `for updated_memory in updated_memories: try force_update_memory except ValueError`
update_each_caught(manager, delegate, updated_memories) ==
    IF updated_memories = <<>>
    THEN Returned(manager, delegate)
    ELSE LET r == force_update_memory(manager, delegate, Head(updated_memories))
         IN  update_each_caught(r.manager, r.store, Tail(updated_memories))

RECURSIVE add_each(_, _, _)
\* extract_new_memories: `for memory in new_memories: force_add_memory`
add_each(manager, delegate, new_memories) ==
    IF new_memories = <<>>
    THEN Returned(manager, delegate)
    ELSE LET r == force_add_memory(manager, delegate, Head(new_memories))
         IN  IF r.raised THEN r ELSE add_each(r.manager, r.store, Tail(new_memories))

RECURSIVE update_each(_, _, _)
\* update_existing_memories: `for memory in updated_memories: force_update_memory`
update_each(manager, delegate, updated_memories) ==
    IF updated_memories = <<>>
    THEN Returned(manager, delegate)
    ELSE LET r == force_update_memory(manager, delegate, Head(updated_memories))
         IN  IF r.raised THEN r ELSE update_each(r.manager, r.store, Tail(updated_memories))

\* {memory.name: delta for memory in related_memories}
delta_map_of(related_memories, delta) ==
    [n \in {related_memories[i].name : i \in 1..Len(related_memories)} |-> delta]

full_update(self, delegate, new_reply, related_reply, to_update_reply, single_replies, delta) ==
    LET current_memory_list == fetch_all_memories_abstract(delegate)
        new_memories == extract_new_memories_llm(current_memory_list, new_reply)
        related_memories == list_related_memories(current_memory_list, related_reply)
        updated_memories == _get_updated_memories(delegate, current_memory_list,
                                                  to_update_reply, single_replies)
    IN  IF ~new_memories.ok \/ ~related_memories.ok \/ ~updated_memories.ok
        THEN Raised(self, delegate)
        ELSE LET added == add_each_caught(self, delegate, new_memories.value)
                 updated == update_each_caught(added.manager, added.store,
                                               updated_memories.value)
             IN  force_update_relevance_map(updated.manager, updated.store,
                                            delta_map_of(related_memories.value, delta))

update_existing_memories(self, delegate, to_update_reply, single_replies) ==
    LET updated_memories == _get_updated_memories(delegate,
                                                  fetch_all_memories_abstract(delegate),
                                                  to_update_reply, single_replies)
    IN  IF ~updated_memories.ok
        THEN Raised(self, delegate)
        ELSE LET r == update_each(self, delegate, updated_memories.value)
             IN  IF r.raised THEN Raised(self, r.store) ELSE r

extract_new_memories(self, delegate, new_reply) ==
    LET new_memories == extract_new_memories_llm(fetch_all_memories_abstract(delegate),
                                                 new_reply)
    IN  IF ~new_memories.ok
        THEN Raised(self, delegate)
        ELSE LET r == add_each(self, delegate, new_memories.value)
             IN  IF r.raised THEN Raised(self, r.store) ELSE r

update_relevance_map(self, delegate, related_reply, delta) ==
    LET related_memories_list ==
            list_related_memories(fetch_all_memories_abstract(delegate), related_reply)
    IN  IF ~related_memories_list.ok
        THEN Raised(self, delegate)
        ELSE force_update_relevance_map(self, delegate,
                                        delta_map_of(related_memories_list.value, delta))

\* update_visible_memory_list ranking with the counts the snapshot had: the
\* refresh runs on self, the relevance update after it.
update_visible_memory_list_stale_ranking(self, delegate, related_reply, limit, delta) ==
    LET r == update_relevance_map(self, delegate, related_reply, delta)
        refreshed == refresh_visible_memory_list(self, delegate, limit)
    IN  IF r.raised
        THEN Raised(self, r.store)
        ELSE Returned(MemoryManager(refreshed.manager.visible_memories, 0,
                                    r.manager.relevance_map, 0),
                      r.store)

update_visible_memory_list(self, delegate, related_reply, limit, delta) ==
    LET r == update_relevance_map(self, delegate, related_reply, delta)
    IN  IF r.raised
        THEN Raised(self, r.store)
        ELSE refresh_visible_memory_list(r.manager, r.store, limit)

(***************************************************************************)
(* memory_server/server_memory_session.py: ServerMemorySession, which      *)
(* holds a repository and no visible list.  An outcome is the content of   *)
(* the repository, whether the call raised, and the repository calls made  *)
(* (the last one is the one that raised, if the call raised).              *)
(***************************************************************************)
RECURSIVE session_add_each(_, _, _)
\* `for new_memory in new_memories: await self.force_add_memory(new_memory)`
session_add_each(delegate, applied, new_memories) ==
    IF new_memories = <<>>
    THEN [raised |-> FALSE, store |-> delegate, applied |-> applied]
    ELSE LET r == add_memory(delegate, Head(new_memories))
             made == Append(applied, [op |-> "add_memory", name |-> Head(new_memories).name])
         IN  IF r.raised
             THEN [raised |-> TRUE, store |-> r.store, applied |-> made]
             ELSE session_add_each(r.store, made, Tail(new_memories))

RECURSIVE session_update_each(_, _, _)
\* `for updated_memory in updated_memories: await self.force_update_memory(updated_memory)`
session_update_each(delegate, applied, updated_memories) ==
    IF updated_memories = <<>>
    THEN [raised |-> FALSE, store |-> delegate, applied |-> applied]
    ELSE LET r == update_memory(delegate, Head(updated_memories))
             made == Append(applied, [op |-> "update_memory",
                                      name |-> Head(updated_memories).name])
         IN  IF r.raised
             THEN [raised |-> TRUE, store |-> r.store, applied |-> made]
             ELSE session_update_each(r.store, made, Tail(updated_memories))

\* update_memory with the two loops exchanged: the updates are applied first
session_update_memory_updates_first(delegate, new_reply, to_update_reply, single_replies) ==
    LET current_memory_list == fetch_all_memories_abstract(delegate)
        new_memories == extract_new_memories_llm(current_memory_list, new_reply)
        updated_memories == _get_updated_memories(delegate, current_memory_list,
                                                  to_update_reply, single_replies)
    IN  IF ~new_memories.ok \/ ~updated_memories.ok
        THEN [raised |-> TRUE, store |-> delegate, applied |-> <<>>]
        ELSE LET updated == session_update_each(delegate, <<>>, updated_memories.value)
             IN  IF updated.raised
                 THEN updated
                 ELSE session_add_each(updated.store, updated.applied, new_memories.value)

session_update_memory(delegate, new_reply, to_update_reply, single_replies) ==
    LET current_memory_list == fetch_all_memories_abstract(delegate)
        new_memories == extract_new_memories_llm(current_memory_list, new_reply)
        updated_memories == _get_updated_memories(delegate, current_memory_list,
                                                  to_update_reply, single_replies)
    IN  IF ~new_memories.ok \/ ~updated_memories.ok
        THEN [raised |-> TRUE, store |-> delegate, applied |-> <<>>]
        ELSE LET added == session_add_each(delegate, <<>>, new_memories.value)
             IN  IF added.raised
                 THEN added
                 ELSE session_update_each(added.store, added.applied,
                                          updated_memories.value)

(***************************************************************************)
(* app/server.py: the DELETE endpoint.  It removes the record from the     *)
(* repository of the manager it holds; the manager itself stays as it is.  *)
(***************************************************************************)
delete_memory(delegate, name) ==
    LET existing_memory == fetch_memory_by_name(delegate, name)
    IN  IF existing_memory = None
        THEN [raised |-> FALSE, store |-> delegate]
        ELSE remove_memory(delegate, existing_memory)

(***************************************************************************)
(* The state machine.                                                      *)
(***************************************************************************)
\* The manager value of snapshot s.
Load(s) ==
    [visible_memories |-> lists[snapshots[s].visible_memories],
     visible_ref      |-> snapshots[s].visible_memories,
     relevance_map    |-> maps[snapshots[s].relevance_map],
     relevance_ref    |-> snapshots[s].relevance_map]

Visible(s) == lists[snapshots[s].visible_memories]
Relevance(s) == maps[snapshots[s].relevance_map]

\* The outcome r of an operation takes effect: the store is as the operation
\* left it; if it returned, the returned manager is a new snapshot, whose
\* list and dict are new objects where the operation created them.
Commit(r) ==
    /\ store' = r.store
    /\ IF r.raised
       THEN UNCHANGED <<lists, maps, snapshots>>
       ELSE LET m == r.manager
                vref == IF m.visible_ref = 0 THEN Len(lists) + 1 ELSE m.visible_ref
                rref == IF m.relevance_ref = 0 THEN Len(maps) + 1 ELSE m.relevance_ref
            IN  /\ lists' = IF m.visible_ref = 0
                            THEN Append(lists, m.visible_memories)
                            ELSE [lists EXCEPT ![vref] = m.visible_memories]
                /\ maps' = IF m.relevance_ref = 0
                           THEN Append(maps, m.relevance_map)
                           ELSE [maps EXCEPT ![rref] = m.relevance_map]
                /\ snapshots' = Append(snapshots,
                                       [visible_memories |-> vref, relevance_map |-> rref])

\* What `call` records of every operation.
OracleDriven ==
    {"full_update", "update_existing_memories", "extract_new_memories",
     "update_relevance_map", "update_visible_memory_list"}

Outcome(op, s, r) ==
    [op |-> op, self |-> s, raised |-> r.raised, store_before |-> store,
     returned |-> IF r.raised THEN 0 ELSE Len(snapshots) + 1,
     calls |-> call.calls + 1,
     oracle_calls |-> call.oracle_calls + (IF op \in OracleDriven THEN 1 ELSE 0)]

MayCall == call.calls < MaxCalls
MayCallOracle == MayCall /\ call.oracle_calls < MaxOracleCalls

InitialDelegates ==
    { <<>>,
      <<StoredMemory("A"), StoredMemory("B")>>,
      <<StoredMemory("C"), StoredMemory("A"), StoredMemory("B")>> }

InitialRelevanceMaps ==
    { EmptyMap,
      [n \in {"B"} |-> 3],
      [n \in Names |-> CASE n = "A" -> 5 [] n = "B" -> 3 [] n = "C" -> 1] }

Init ==
    \E delegate \in InitialDelegates, relevance_map \in InitialRelevanceMaps :
      \E visible_memories \in {<<>>, delegate} :
        /\ store = InMemoryMemoryRepository(delegate)
        /\ lists = <<visible_memories>>
        /\ maps = <<relevance_map>>
        /\ snapshots = <<[visible_memories |-> 1, relevance_map |-> 1]>>
        /\ call = [op |-> "__init__", self |-> 0, raised |-> FALSE,
                   store_before |-> <<>>, returned |-> 1,
                   calls |-> 0, oracle_calls |-> 0]

DeltaMaps == UNION {[D -> Deltas] : D \in {S \in SUBSET Names : Cardinality(S) <= MaxListed}}

ForceAddMemory ==
    /\ MayCall
    /\ \E s \in 1..Len(snapshots), memory \in InputMemories :
         /\ LET r == force_add_memory(Load(s), store, memory)
            IN  /\ Commit(r)
                /\ call' = Outcome("force_add_memory", s, r) @@ [memory |-> memory]

ForceUpdateRelevanceMap ==
    /\ MayCall
    /\ \E s \in 1..Len(snapshots), delta_map \in DeltaMaps :
         /\ LET r == force_update_relevance_map(Load(s), store, delta_map)
            IN  /\ Commit(r)
                /\ call' = Outcome("force_update_relevance_map", s, r) @@ [delta_map |-> delta_map]

ForceUpdateMemory ==
    /\ MayCall
    /\ \E s \in 1..Len(snapshots), memory \in InputMemories :
         /\ LET r == force_update_memory(Load(s), store, memory)
            IN  /\ Commit(r)
                /\ call' = Outcome("force_update_memory", s, r) @@ [memory |-> memory]

RefreshVisibleMemoryList ==
    /\ MayCall
    /\ \E s \in 1..Len(snapshots), limit \in Limits :
         /\ LET r == refresh_visible_memory_list(Load(s), store, limit)
            IN  /\ Commit(r)
                /\ call' = Outcome("refresh_visible_memory_list", s, r) @@ [limit |-> limit]

DeleteMemory ==
    /\ MayCall
    /\ \E name \in Names :
         LET r == delete_memory(store, name)
         IN  /\ store' = r.store
             /\ UNCHANGED <<lists, maps, snapshots>>
             /\ call' = [op |-> "delete_memory", self |-> 0, raised |-> r.raised,
                         store_before |-> store, returned |-> 0,
                         calls |-> call.calls + 1, oracle_calls |-> call.oracle_calls,
                         name |-> name]

(***************************************************************************)
(* The oracle's replies, the inputs of the oracle-driven operations.       *)
(***************************************************************************)
NewMemoriesReplies == {Failure} \cup {Reply(l) : l \in SeqsUpTo(InputMemories, MaxListed)}
NamesReplies == {Failure} \cup {Reply(l) : l \in SeqsUpTo(Names, MaxListed)}

\* The replies of the UpdateSingleMemory exchanges, by the name of the
\* memory sent: the new block, or a failure for at most one of the names
\* listed (no exchange is issued for a name that is not listed).
SingleReplies(to_update_reply) ==
    LET listed == IF to_update_reply.ok
                  THEN {to_update_reply.value[i] : i \in 1..Len(to_update_reply.value)}
                  ELSE {}
    IN  {[n \in Names |-> IF n \in failing THEN FailureStr ELSE Reply(UpdatedBlock)] :
            failing \in {{}} \cup {{n} : n \in listed}}

Items(reply) == IF reply.ok THEN Len(reply.value) ELSE 1

FullUpdate ==
    /\ MayCallOracle
    /\ \E s \in 1..Len(snapshots), delta \in Deltas,
          new_reply \in NewMemoriesReplies, related_reply \in NamesReplies,
          to_update_reply \in NamesReplies :
         /\ Items(new_reply) + Items(related_reply) + Items(to_update_reply) <= MaxOracleItems
         /\ \E single_replies \in SingleReplies(to_update_reply) :
              LET r == full_update(Load(s), store, new_reply, related_reply, to_update_reply,
                                   single_replies, delta)
              IN  /\ Commit(r)
                  /\ call' = Outcome("full_update", s, r) @@
                             [new_reply |-> new_reply, related_reply |-> related_reply,
                              to_update_reply |-> to_update_reply,
                              single_replies |-> single_replies, delta |-> delta]

UpdateExistingMemories ==
    /\ MayCallOracle
    /\ \E s \in 1..Len(snapshots), to_update_reply \in NamesReplies :
         \E single_replies \in SingleReplies(to_update_reply) :
           /\ LET r == update_existing_memories(Load(s), store, to_update_reply, single_replies)
              IN  /\ Commit(r)
                  /\ call' = Outcome("update_existing_memories", s, r) @@
                             [to_update_reply |-> to_update_reply,
                              single_replies |-> single_replies]

ExtractNewMemories ==
    /\ MayCallOracle
    /\ \E s \in 1..Len(snapshots), new_reply \in NewMemoriesReplies :
         /\ LET r == extract_new_memories(Load(s), store, new_reply)
            IN  /\ Commit(r)
                /\ call' = Outcome("extract_new_memories", s, r) @@ [new_reply |-> new_reply]

UpdateRelevanceMap ==
    /\ MayCallOracle
    /\ \E s \in 1..Len(snapshots), related_reply \in NamesReplies, delta \in Deltas :
         /\ LET r == update_relevance_map(Load(s), store, related_reply, delta)
            IN  /\ Commit(r)
                /\ call' = Outcome("update_relevance_map", s, r) @@
                           [related_reply |-> related_reply, delta |-> delta]

UpdateVisibleMemoryList ==
    /\ MayCallOracle
    /\ \E s \in 1..Len(snapshots), related_reply \in NamesReplies, delta \in Deltas,
          limit \in Limits :
         /\ LET r == update_visible_memory_list(Load(s), store, related_reply, limit, delta)
            IN  /\ Commit(r)
                /\ call' = Outcome("update_visible_memory_list", s, r) @@
                           [related_reply |-> related_reply, delta |-> delta, limit |-> limit]

Next ==
    \/ ForceAddMemory
    \/ ForceUpdateRelevanceMap
    \/ ForceUpdateMemory
    \/ RefreshVisibleMemoryList
    \/ DeleteMemory
    \/ FullUpdate
    \/ UpdateExistingMemories
    \/ ExtractNewMemories
    \/ UpdateRelevanceMap
    \/ UpdateVisibleMemoryList

Spec == Init /\ [][Next]_vars

(***************************************************************************)
(* One oracle exchange from its raw response text: an operation whose      *)
(* exchange gets the text response_str, on a manager with one stored and   *)
(* visible memory.  A valid CreateNewMemoriesResponse stands for the       *)
(* proposal of memory B, a valid UpdateSingleMemoryResponse for the new     *)
(* block of memory A.                                                      *)
(***************************************************************************)
InitCast ==
    \E response_str \in SeqsUpTo(Chars, MaxRawLen) :
        /\ store = InMemoryMemoryRepository(<<StoredMemory("A")>>)
        /\ lists = <<(<<StoredMemory("A")>>)>>
        /\ maps = <<EmptyMap>>
        /\ snapshots = <<[visible_memories |-> 1, relevance_map |-> 1]>>
        /\ call = [op |-> "generate", self |-> 0, raised |-> FALSE,
                   store_before |-> <<>>, returned |-> 1,
                   calls |-> 0, oracle_calls |-> 0, response_str |-> response_str]

ExtractNewMemoriesCast ==
    /\ call.op = "generate"
    /\ LET cast == _structured_generate("CreateNewMemoriesResponse", call.response_str)
           new_reply == IF cast.ok THEN Reply(<<InputMemory("B")>>) ELSE Failure
           r == extract_new_memories(Load(1), store, new_reply)
       IN  /\ Commit(r)
           /\ call' = Outcome("extract_new_memories", 1, r) @@
                      [response_type |-> "CreateNewMemoriesResponse",
                       response_str |-> call.response_str, cast |-> cast]

UpdateExistingMemoriesCast ==
    /\ call.op = "generate"
    /\ LET cast == _structured_generate("UpdateSingleMemoryResponse", call.response_str)
           single_replies == [n \in Names |->
                                 IF cast.ok THEN Reply(UpdatedBlock) ELSE FailureStr]
           r == update_existing_memories(Load(1), store, Reply(<<"A">>), single_replies)
       IN  /\ Commit(r)
           /\ call' = Outcome("update_existing_memories", 1, r) @@
                      [response_type |-> "UpdateSingleMemoryResponse",
                       response_str |-> call.response_str, cast |-> cast]

NextCast ==
    \/ ExtractNewMemoriesCast
    \/ UpdateExistingMemoriesCast

SpecCast == InitCast /\ [][NextCast]_vars

(***************************************************************************)
(* The repository alone: add_memory, update_memory and remove_memory of    *)
(* memory/in_memory.py and remove_memory_by_name of                        *)
(* memory_server/in_memory.py, called in any order.  The exception of      *)
(* add_memory is the ValueError that __add_memory_impl raises, that of     *)
(* update_memory and remove_memory the ValueError of list.remove.          *)
(***************************************************************************)
InitRepo ==
    \E delegate \in InitialDelegates :
        /\ store = InMemoryMemoryRepository(delegate)
        /\ lists = <<(<<>>)>>
        /\ maps = <<EmptyMap>>
        /\ snapshots = <<[visible_memories |-> 1, relevance_map |-> 1]>>
        /\ call = [op |-> "__init__", self |-> 0, raised |-> FALSE, error |-> "",
                   name |-> "", store_before |-> <<>>, returned |-> 1,
                   calls |-> 0, oracle_calls |-> 0]

RepoOutcome(op, name, r, error) ==
    [op |-> op, self |-> 0, raised |-> r.raised, error |-> error, name |-> name,
     store_before |-> store, returned |-> 0,
     calls |-> call.calls + 1, oracle_calls |-> 0]

RepoAddMemory ==
    /\ call.calls < MaxRepoCalls
    /\ \E memory \in InputMemories :
         LET r == add_memory(store, memory)
         IN  /\ store' = r.store
             /\ UNCHANGED <<lists, maps, snapshots>>
             /\ call' = RepoOutcome("add_memory", memory.name, r,
                                    IF r.raised THEN "ValueError" ELSE "")

RepoUpdateMemory ==
    /\ call.calls < MaxRepoCalls
    /\ \E memory \in InputMemories :
         LET r == update_memory(store, memory)
         IN  /\ store' = r.store
             /\ UNCHANGED <<lists, maps, snapshots>>
             /\ call' = RepoOutcome("update_memory", memory.name, r,
                                    IF r.raised THEN "ValueError" ELSE "")

RepoRemoveMemory ==
    /\ call.calls < MaxRepoCalls
    /\ \E memory \in InputMemories :
         LET r == remove_memory(store, memory)
         IN  /\ store' = r.store
             /\ UNCHANGED <<lists, maps, snapshots>>
             /\ call' = RepoOutcome("remove_memory", memory.name, r,
                                    IF r.raised THEN "ValueError" ELSE "")

RepoRemoveMemoryByName ==
    /\ call.calls < MaxRepoCalls
    /\ \E name \in Names :
         LET r == remove_memory_by_name(store, name)
         IN  /\ store' = r.store
             /\ UNCHANGED <<lists, maps, snapshots>>
             /\ call' = RepoOutcome("remove_memory_by_name", name, r, r.error)

NextRepo ==
    \/ RepoAddMemory
    \/ RepoUpdateMemory
    \/ RepoRemoveMemory
    \/ RepoRemoveMemoryByName

SpecRepo == InitRepo /\ [][NextRepo]_vars

(***************************************************************************)
(* full_update step by step: the coroutine's position is call.pc.  After   *)
(* the listing of the store's abstracts, gather runs three coroutines whose *)
(* exchanges complete in any order; the first failure raises out of the    *)
(* gather.  Then come the loop of additions, the loop of updates, and the  *)
(* relevance update.  call.applied logs the store and manager calls made.  *)
(***************************************************************************)
\* A coroutine of the gather: not created, awaiting its exchange (with the
\* listing it was given), finished with a value, or failed.
Pending == [status |-> "pending", given |-> <<>>, value |-> <<>>]
Running(given) == [status |-> "running", given |-> given, value |-> <<>>]
Done(coroutine, value) == [coroutine EXCEPT !.status = "done", !.value = value]
Failed(coroutine) == [coroutine EXCEPT !.status = "failed"]

\* One _get_updated_memory coroutine per name: not created, awaiting its
\* UpdateSingleMemory exchange for old_memory, finished, or failed.
NotUpdating == [status |-> "none", old_memory |-> None, value |-> None]

InitFull ==
    \E delegate \in InitialDelegates, relevance_map \in InitialRelevanceMaps,
       delta \in Deltas :
      \E visible_memories \in {<<>>, delegate} :
        /\ store = InMemoryMemoryRepository(delegate)
        /\ lists = <<visible_memories>>
        /\ maps = <<relevance_map>>
        /\ snapshots = <<[visible_memories |-> 1, relevance_map |-> 1]>>
        /\ call = [op |-> "full_update", self |-> 1, raised |-> FALSE,
                   store_before |-> InMemoryMemoryRepository(delegate), returned |-> 0,
                   calls |-> 1, oracle_calls |-> 1, delta |-> delta,
                   pc |-> "start",
                   current_memory_list |-> <<>>,
                   new_memories |-> Pending,
                   related_memories |-> Pending,
                   memories_to_update |-> Pending,
                   to_update_reply |-> Reply(<<>>),
                   updated |-> [n \in Names |-> NotUpdating],
                   manager |-> [visible_memories |-> visible_memories, visible_ref |-> 1,
                                relevance_map |-> relevance_map, relevance_ref |-> 1],
                   todo_add |-> <<>>,
                   todo_update |-> <<>>,
                   applied |-> <<>>]

\* `current_memory_list = await self.memory_repository.fetch_all_memories_abstract()`
FetchAbstracts ==
    /\ call.pc = "start"
    /\ call' = [call EXCEPT !.pc = "listed",
                            !.current_memory_list = fetch_all_memories_abstract(store)]
    /\ UNCHANGED <<store, lists, maps, snapshots>>

\* `gather(extract_new_memories(current_memory_list, ..),
\*         list_related_memories(current_memory_list, ..),
\*         _get_updated_memories(current_memory_list, ..))`: the three
\* coroutines are created with the listing and run up to their exchange.
StartGather ==
    /\ call.pc = "listed"
    /\ call' = [call EXCEPT !.pc = "gather",
                            !.new_memories = Running(call.current_memory_list),
                            !.related_memories = Running(call.current_memory_list),
                            !.memories_to_update = Running(call.current_memory_list)]
    /\ UNCHANGED <<store, lists, maps, snapshots>>

\* An exception of a gathered coroutine raises out of full_update.
GatherRaises(c) == [c EXCEPT !.pc = "raised", !.raised = TRUE]

\* The ExtractNewMemories exchange completes with one of the given replies.
ExtractNewMemoriesRepliesWith(replies) ==
    /\ call.pc = "gather"
    /\ call.new_memories.status = "running"
    /\ \E reply \in replies :
         LET r == extract_new_memories_llm(call.new_memories.given, reply)
         IN  call' = IF r.ok
                     THEN [call EXCEPT !.new_memories = Done(@, r.value)]
                     ELSE GatherRaises([call EXCEPT !.new_memories = Failed(@)])
    /\ UNCHANGED <<store, lists, maps, snapshots>>

\* The ExtractNewMemories exchange completes.
ExtractNewMemoriesReplies == ExtractNewMemoriesRepliesWith(NewMemoriesReplies)

\* The FindAssociatedMemories exchange completes with one of the given replies.
ListRelatedMemoriesRepliesWith(replies) ==
    /\ call.pc = "gather"
    /\ call.related_memories.status = "running"
    /\ \E reply \in replies :
         LET r == list_related_memories(call.related_memories.given, reply)
         IN  call' = IF r.ok
                     THEN [call EXCEPT !.related_memories = Done(@, r.value)]
                     ELSE GatherRaises([call EXCEPT !.related_memories = Failed(@)])
    /\ UNCHANGED <<store, lists, maps, snapshots>>

\* The FindAssociatedMemories exchange completes.
ListRelatedMemoriesReplies == ListRelatedMemoriesRepliesWith(NamesReplies)

\* The ListMemoriesToUpdate exchange completes with one of the given
\* replies; _get_updated_memories gathers one _get_updated_memory per listed
\* abstract, each of which fetches its old memory and awaits its
\* UpdateSingleMemory exchange.
ListMemoryToUpdateRepliesWith(replies) ==
    /\ call.pc = "gather"
    /\ call.memories_to_update.status = "running"
    /\ \E reply \in replies :
         LET r == list_memory_to_update(call.memories_to_update.given, reply)
             listed == {r.value[i].name : i \in 1..Len(r.value)}
         IN  call' =
               IF ~r.ok
               THEN GatherRaises([call EXCEPT !.memories_to_update = Failed(@),
                                              !.to_update_reply = reply])
               ELSE IF \E n \in listed : fetch_memory_by_name(store, n) = None
               THEN GatherRaises([call EXCEPT !.memories_to_update = Done(@, r.value),
                                              !.to_update_reply = reply])
               ELSE [call EXCEPT
                       !.memories_to_update = Done(@, r.value),
                       !.to_update_reply = reply,
                       !.updated = [n \in Names |->
                           IF n \in listed
                           THEN [status |-> "running",
                                 old_memory |-> fetch_memory_by_name(store, n),
                                 value |-> None]
                           ELSE NotUpdating]]
    /\ UNCHANGED <<store, lists, maps, snapshots>>

\* The ListMemoriesToUpdate exchange completes.
ListMemoryToUpdateReplies == ListMemoryToUpdateRepliesWith(NamesReplies)

\* The UpdateSingleMemory exchange for the memory named n completes.
UpdateMemoryRepliesFor(n) ==
    /\ call.pc = "gather"
    /\ \E reply \in {Reply(UpdatedBlock), FailureStr} :
         /\ call.updated[n].status = "running"
         /\ LET r == update_memory_llm(call.updated[n].old_memory, reply)
            IN  call' = IF r.ok
                        THEN [call EXCEPT !.updated[n].status = "done",
                                          !.updated[n].value = r.value]
                        ELSE GatherRaises([call EXCEPT !.updated[n].status = "failed"])
    /\ UNCHANGED <<store, lists, maps, snapshots>>

\* One UpdateSingleMemory exchange completes.
UpdateMemoryReplies == \E n \in Names : UpdateMemoryRepliesFor(n)

\* a gather that does not wait for list_related_memories
GatherDone_related_not_awaited(c) ==
    /\ c.new_memories.status = "done"
    /\ c.memories_to_update.status = "done"
    /\ \A n \in Names : c.updated[n].status \in {"none", "done"}

\* all three awaited results are in: the gather returns
GatherDone(c) ==
    /\ c.new_memories.status = "done"
    /\ c.related_memories.status = "done"
    /\ c.memories_to_update.status = "done"
    /\ \A n \in Names : c.updated[n].status \in {"none", "done"}

\* The loop the coroutine is in, given what is left to add and to update.
LoopOf(todo_add, todo_update) ==
    IF todo_add # <<>> THEN "add"
    ELSE IF todo_update # <<>> THEN "update"
    ELSE "relevance"

\* `new_memories, related_memories, updated_memories = await gather(...)`
GatherReturns ==
    /\ call.pc = "gather"
    /\ GatherDone(call)
    /\ LET new_memories == call.new_memories.value
           updated_memories ==
               [i \in 1..Len(call.memories_to_update.value) |->
                   call.updated[call.memories_to_update.value[i].name].value]
       IN  call' = [call EXCEPT !.pc = LoopOf(new_memories, updated_memories),
                                !.todo_add = new_memories,
                                !.todo_update = updated_memories]
    /\ UNCHANGED <<store, lists, maps, snapshots>>

\* One turn of `for new_memory in new_memories: try force_add_memory`
AddNewMemory ==
    /\ call.pc = "add"
    /\ LET r == force_add_memory(call.manager, store, Head(call.todo_add))
       IN  /\ store' = r.store
           /\ call' = [call EXCEPT !.manager = r.manager,
                                   !.todo_add = Tail(@),
                                   !.applied = Append(@, "force_add_memory"),
                                   !.pc = LoopOf(Tail(call.todo_add), call.todo_update)]
    /\ UNCHANGED <<lists, maps, snapshots>>

\* One turn of `for updated_memory in updated_memories: try force_update_memory`
UpdateMemory ==
    /\ call.pc = "update"
    /\ LET r == force_update_memory(call.manager, store, Head(call.todo_update))
       IN  /\ store' = r.store
           /\ call' = [call EXCEPT !.manager = r.manager,
                                   !.todo_update = Tail(@),
                                   !.applied = Append(@, "force_update_memory"),
                                   !.pc = LoopOf(<<>>, Tail(call.todo_update))]
    /\ UNCHANGED <<lists, maps, snapshots>>

\* `force_update_relevance_map({memory.name: delta for memory in related_memories})`
\* and the return of the new manager
UpdateRelevance ==
    /\ call.pc = "relevance"
    /\ LET r == force_update_relevance_map(call.manager, store,
                    delta_map_of(call.related_memories.value, call.delta))
       IN  /\ Commit(r)
           /\ call' = [call EXCEPT !.manager = r.manager,
                                   !.applied = Append(@, "force_update_relevance_map"),
                                   !.returned = Len(snapshots) + 1,
                                   !.pc = "done"]

NextFull ==
    \/ FetchAbstracts
    \/ StartGather
    \/ ExtractNewMemoriesReplies
    \/ ListRelatedMemoriesReplies
    \/ ListMemoryToUpdateReplies
    \/ UpdateMemoryReplies
    \/ GatherReturns
    \/ AddNewMemory
    \/ UpdateMemory
    \/ UpdateRelevance

SpecFull == InitFull /\ [][NextFull]_vars


(***************************************************************************)
(* refresh_visible_memory_list step by step, on a repository that another  *)
(* request removes memories from (app/server.py serves every request on    *)
(* its own event loop): the listing, then one fetch by name per selected   *)
(* abstract, then the return.  call.fetched logs what every fetch returned.*)
(***************************************************************************)
InitRefresh ==
    \E delegate \in InitialDelegates, relevance_map \in InitialRelevanceMaps,
       limit \in Limits :
      \E visible_memories \in {<<>>, delegate} :
        /\ store = InMemoryMemoryRepository(delegate)
        /\ lists = <<visible_memories>>
        /\ maps = <<relevance_map>>
        /\ snapshots = <<[visible_memories |-> 1, relevance_map |-> 1]>>
        /\ call = [op |-> "refresh_visible_memory_list", self |-> 1, raised |-> FALSE,
                   store_before |-> InMemoryMemoryRepository(delegate), returned |-> 0,
                   calls |-> 1, oracle_calls |-> 0, limit |-> limit,
                   pc |-> "refresh",
                   top_memories |-> <<>>,
                   todo |-> <<>>,
                   visible_memories |-> <<>>,
                   fetched |-> <<>>,
                   removed |-> {}]

\* the listing, the sort and the slice
RefreshListsAbstracts ==
    /\ call.pc = "refresh"
    /\ LET all_memories == fetch_all_memories_abstract(store)
           sorted_memories == sorted(all_memories, Relevance(call.self))
           top_memories == SliceTo(sorted_memories, call.limit)
       IN  call' = [call EXCEPT !.pc = "fetch",
                                !.top_memories = top_memories,
                                !.todo = top_memories]
    /\ UNCHANGED <<store, lists, maps, snapshots>>

\* one turn of `for memory_abstract in top_memories`
RefreshFetchesMemory ==
    /\ call.pc = "fetch"
    /\ call.todo # <<>>
    /\ LET memory == fetch_memory_by_name(store, Head(call.todo).name)
       IN  call' = [call EXCEPT
                      !.todo = Tail(@),
                      !.visible_memories = append_if_found(@, memory),
                      !.fetched = Append(@, [name |-> Head(call.todo).name,
                                             memory |-> memory])]
    /\ UNCHANGED <<store, lists, maps, snapshots>>

\* the return of the new manager
RefreshReturns ==
    /\ call.pc = "fetch"
    /\ call.todo = <<>>
    /\ LET r == Returned(MemoryManager(call.visible_memories, 0,
                                       Relevance(call.self),
                                       snapshots[call.self].relevance_map),
                         store)
       IN  /\ Commit(r)
           /\ call' = [call EXCEPT !.pc = "done", !.returned = Len(snapshots) + 1]

\* another request deletes a stored memory while the refresh is running
ConcurrentDelete ==
    /\ call.pc # "done"
    /\ \E name \in {store[i].name : i \in 1..Len(store)} :
         /\ store' = delete_memory(store, name).store
         /\ call' = [call EXCEPT !.removed = @ \cup {name}]
    /\ UNCHANGED <<lists, maps, snapshots>>

NextRefresh ==
    \/ RefreshListsAbstracts
    \/ RefreshFetchesMemory
    \/ RefreshReturns
    \/ ConcurrentDelete

SpecRefresh == InitRefresh /\ [][NextRefresh]_vars

(***************************************************************************)
(* The five oracle-driven operations as coroutines, with an oracle of      *)
(* which one generate call may never return (call.hung names the exchange: *)
(* "extract", "related", "to_update", or the name of the memory of an      *)
(* UpdateSingleMemory exchange; "none" if every call returns).  Every      *)
(* operation lists the abstracts, issues its exchanges and awaits them;    *)
(* the calls it then makes on the in-memory repository return at once.     *)
(* full_update and the refresh of update_visible_memory_list go on as      *)
(* above; the other operations finish in one step.                         *)
(***************************************************************************)
HighLevelOps == {"full_update", "update_existing_memories", "extract_new_memories",
                 "update_relevance_map", "update_visible_memory_list"}

Hangs == {"none", "extract", "related", "to_update"} \cup Names

\* The replies of this oracle.
LiveNewMemoriesReplies ==
    {Failure} \cup {Reply(l) : l \in SeqsUpTo(InputMemories, MaxLiveListed)}
LiveNamesReplies == {Failure} \cup {Reply(l) : l \in SeqsUpTo(Names, MaxLiveListed)}

\* The exchanges an operation issues once it has the listing.
Awaits(op) ==
    CASE op = "full_update" -> {"extract", "related", "to_update"}
      [] op = "update_existing_memories" -> {"to_update"}
      [] op = "extract_new_memories" -> {"extract"}
      [] OTHER -> {"related"}

InitLive ==
    \E delegate \in InitialDelegates, op \in HighLevelOps, hung \in Hangs,
       delta \in Deltas :
      \E limit \in IF op = "update_visible_memory_list" THEN Limits ELSE {0} :
        /\ store = InMemoryMemoryRepository(delegate)
        /\ lists = <<delegate>>
        /\ maps = <<EmptyMap>>
        /\ snapshots = <<[visible_memories |-> 1, relevance_map |-> 1]>>
        /\ call = [op |-> op, self |-> 1, raised |-> FALSE,
                   store_before |-> InMemoryMemoryRepository(delegate), returned |-> 0,
                   calls |-> 1, oracle_calls |-> 1, delta |-> delta, limit |-> limit,
                   hung |-> hung,
                   top_memories |-> <<>>,
                   todo |-> <<>>,
                   visible_memories |-> <<>>,
                   fetched |-> <<>>,
                   pc |-> "start",
                   current_memory_list |-> <<>>,
                   new_memories |-> Pending,
                   related_memories |-> Pending,
                   memories_to_update |-> Pending,
                   to_update_reply |-> Reply(<<>>),
                   updated |-> [n \in Names |-> NotUpdating],
                   manager |-> [visible_memories |-> delegate, visible_ref |-> 1,
                                relevance_map |-> EmptyMap, relevance_ref |-> 1],
                   todo_add |-> <<>>,
                   todo_update |-> <<>>,
                   applied |-> <<>>]

\* The coroutines of the operation's exchanges are created with the listing
\* and run up to their generate call.
IssueExchanges ==
    /\ call.pc = "listed"
    /\ call' = [call EXCEPT
                  !.pc = "gather",
                  !.new_memories = IF "extract" \in Awaits(call.op)
                                   THEN Running(call.current_memory_list) ELSE @,
                  !.related_memories = IF "related" \in Awaits(call.op)
                                       THEN Running(call.current_memory_list) ELSE @,
                  !.memories_to_update = IF "to_update" \in Awaits(call.op)
                                         THEN Running(call.current_memory_list) ELSE @]
    /\ UNCHANGED <<store, lists, maps, snapshots>>

\* A generate call returns or fails, unless it is the one that never does.
ExtractReturns ==
    call.hung # "extract" /\ ExtractNewMemoriesRepliesWith(LiveNewMemoriesReplies)
RelatedReturns ==
    call.hung # "related" /\ ListRelatedMemoriesRepliesWith(LiveNamesReplies)
ToUpdateReturns ==
    call.hung # "to_update" /\ ListMemoryToUpdateRepliesWith(LiveNamesReplies)
SingleUpdateReturns == \E n \in Names : call.hung # n /\ UpdateMemoryRepliesFor(n)

\* The operation ends with outcome r: it returns a new manager or raises.
Completes(r) ==
    /\ Commit(r)
    /\ call' = [call EXCEPT !.pc = IF r.raised THEN "raised" ELSE "done",
                            !.raised = r.raised,
                            !.returned = IF r.raised THEN 0 ELSE Len(snapshots) + 1]

\* extract_new_memories after its exchange: `for memory in new_memories`
ExtractNewMemoriesCompletes ==
    /\ call.op = "extract_new_memories"
    /\ call.pc = "gather"
    /\ call.new_memories.status = "done"
    /\ LET r == add_each(call.manager, store, call.new_memories.value)
       IN  Completes(IF r.raised THEN Raised(call.manager, r.store) ELSE r)

\* update_existing_memories after _get_updated_memories: `for memory in updated_memories`
UpdateExistingMemoriesCompletes ==
    /\ call.op = "update_existing_memories"
    /\ call.pc = "gather"
    /\ call.memories_to_update.status = "done"
    /\ \A n \in Names : call.updated[n].status \in {"none", "done"}
    /\ LET updated_memories ==
               [i \in 1..Len(call.memories_to_update.value) |->
                   call.updated[call.memories_to_update.value[i].name].value]
           r == update_each(call.manager, store, updated_memories)
       IN  Completes(IF r.raised THEN Raised(call.manager, r.store) ELSE r)

\* update_relevance_map after its exchange
UpdateRelevanceMapCompletes ==
    /\ call.op = "update_relevance_map"
    /\ call.pc = "gather"
    /\ call.related_memories.status = "done"
    /\ LET r == force_update_relevance_map(call.manager, store,
                    delta_map_of(call.related_memories.value, call.delta))
       IN  Completes(r)

\* update_visible_memory_list after the exchange of its update_relevance_map:
\* update_relevance_map returns a new manager, on which
\* refresh_visible_memory_list then runs as above.
UpdateVisibleMemoryListRefreshes ==
    /\ call.op = "update_visible_memory_list"
    /\ call.pc = "gather"
    /\ call.related_memories.status = "done"
    /\ LET r == force_update_relevance_map(call.manager, store,
                    delta_map_of(call.related_memories.value, call.delta))
       IN  /\ Commit(r)
           /\ call' = [call EXCEPT !.pc = "refresh",
                                   !.manager = r.manager,
                                   !.self = Len(snapshots) + 1]

NextLive ==
    \/ FetchAbstracts
    \/ IssueExchanges
    \/ ExtractReturns
    \/ RelatedReturns
    \/ ToUpdateReturns
    \/ SingleUpdateReturns
    \/ GatherReturns
    \/ AddNewMemory
    \/ UpdateMemory
    \/ UpdateRelevance
    \/ ExtractNewMemoriesCompletes
    \/ UpdateExistingMemoriesCompletes
    \/ UpdateRelevanceMapCompletes
    \/ UpdateVisibleMemoryListRefreshes
    \/ RefreshListsAbstracts
    \/ RefreshFetchesMemory
    \/ RefreshReturns

\* The event loop runs a coroutine that can run, and every generate call but
\* the hung one comes back.
SpecLive == InitLive /\ [][NextLive]_vars /\ WF_vars(NextLive)

(***************************************************************************)
(* A single owner of the snapshot chain: app/server.py keeps one manager   *)
(* and replaces it by the manager each operation returns, so that every    *)
(* operation is invoked on the snapshot created last.  The behaviours are  *)
(* the chains of manager calls that all return.                            *)
(***************************************************************************)
\* The call just made was made on the owner's current snapshot and returned
\* the next one.
OnCurrentSnapshot == call'.self = Len(snapshots) /\ ~call'.raised

OwnerForceAddMemory == ForceAddMemory /\ OnCurrentSnapshot
OwnerForceUpdateRelevanceMap == ForceUpdateRelevanceMap /\ OnCurrentSnapshot
OwnerForceUpdateMemory == ForceUpdateMemory /\ OnCurrentSnapshot
OwnerRefreshVisibleMemoryList == RefreshVisibleMemoryList /\ OnCurrentSnapshot
OwnerFullUpdate == FullUpdate /\ OnCurrentSnapshot
OwnerUpdateExistingMemories == UpdateExistingMemories /\ OnCurrentSnapshot
OwnerExtractNewMemories == ExtractNewMemories /\ OnCurrentSnapshot
OwnerUpdateRelevanceMap == UpdateRelevanceMap /\ OnCurrentSnapshot
OwnerUpdateVisibleMemoryList == UpdateVisibleMemoryList /\ OnCurrentSnapshot

NextOwner ==
    \/ OwnerForceAddMemory
    \/ OwnerForceUpdateRelevanceMap
    \/ OwnerForceUpdateMemory
    \/ OwnerRefreshVisibleMemoryList
    \/ OwnerFullUpdate
    \/ OwnerUpdateExistingMemories
    \/ OwnerExtractNewMemories
    \/ OwnerUpdateRelevanceMap
    \/ OwnerUpdateVisibleMemoryList

SpecOwner == Init /\ [][NextOwner]_vars

(***************************************************************************)
(* Two overlapping full_update calls over the same store, each on the      *)
(* snapshot its holder has, interleaved where a coroutine awaits: call.h   *)
(* holds the two coroutines.  A call on the in-memory repository has no    *)
(* await inside and runs as one step, as does a manager call made of it.   *)
(* The reply of the FindAssociatedMemories exchange is awaited in the      *)
(* gather and its names are used, and drawn here, in the last step.        *)
(***************************************************************************)
Holders == {1, 2}

InitRace ==
    \E delegate \in InitialDelegates, delta \in Deltas :
      \E visible1 \in {<<>>, delegate}, visible2 \in {<<>>, delegate} :
        /\ store = InMemoryMemoryRepository(delegate)
        /\ lists = <<visible1, visible2>>
        /\ maps = <<EmptyMap>>
        /\ snapshots = <<[visible_memories |-> 1, relevance_map |-> 1],
                         [visible_memories |-> 2, relevance_map |-> 1]>>
        /\ call = [op |-> "full_update",
                   store_before |-> InMemoryMemoryRepository(delegate),
                   h |-> [i \in Holders |->
                           [self |-> i, pc |-> "start", raised |-> FALSE, returned |-> 0,
                            delta |-> delta,
                            current_memory_list |-> <<>>,
                            new_memories |-> <<>>,
                            memories_to_update |-> <<>>,
                            old_memory |-> [n \in Names |-> None],
                            manager |-> [visible_memories |->
                                             IF i = 1 THEN visible1 ELSE visible2,
                                         visible_ref |-> i,
                                         relevance_map |-> EmptyMap,
                                         relevance_ref |-> 1],
                            todo_add |-> <<>>,
                            todo_update |-> <<>>,
                            exchange_failed |-> FALSE,
                            skipped |-> <<>>]]]

\* `current_memory_list = await self.memory_repository.fetch_all_memories_abstract()`
RaceFetchAbstracts(i) ==
    /\ call.h[i].pc = "start"
    /\ call' = [call EXCEPT !.h[i].pc = "gather",
                            !.h[i].current_memory_list = fetch_all_memories_abstract(store)]
    /\ UNCHANGED <<store, lists, maps, snapshots>>

\* The ExtractNewMemories and ListMemoriesToUpdate exchanges of the gather
\* complete, or an exchange of the three fails; one _get_updated_memory per
\* listed abstract fetches its old memory.
RaceDiscovers(i) ==
    /\ call.h[i].pc = "gather"
    /\ \E new_reply \in LiveNewMemoriesReplies, to_update_reply \in LiveNamesReplies,
          related_ok \in BOOLEAN :
         LET c == call.h[i]
             new_memories == extract_new_memories_llm(c.current_memory_list, new_reply)
             memories_to_update == list_memory_to_update(c.current_memory_list,
                                                         to_update_reply)
             listed == {memories_to_update.value[k].name :
                           k \in 1..Len(memories_to_update.value)}
         IN  call' =
               IF ~new_memories.ok \/ ~memories_to_update.ok \/ ~related_ok
               THEN [call EXCEPT !.h[i].pc = "raised", !.h[i].raised = TRUE,
                                 !.h[i].exchange_failed = TRUE]
               ELSE IF \E n \in listed : fetch_memory_by_name(store, n) = None
               THEN [call EXCEPT !.h[i].pc = "raised", !.h[i].raised = TRUE]
               ELSE [call EXCEPT
                       !.h[i].pc = "updating",
                       !.h[i].new_memories = new_memories.value,
                       !.h[i].memories_to_update = memories_to_update.value,
                       !.h[i].old_memory = [n \in Names |->
                           IF n \in listed THEN fetch_memory_by_name(store, n) ELSE None]]
    /\ UNCHANGED <<store, lists, maps, snapshots>>

\* The UpdateSingleMemory exchanges complete, or one of them fails, and the
\* gather returns.
RaceGatherReturns(i) ==
    /\ call.h[i].pc = "updating"
    /\ \E reply \in {Reply(UpdatedBlock), FailureStr} :
         LET c == call.h[i]
             updated_memories ==
                 [k \in 1..Len(c.memories_to_update) |->
                     update_memory_llm(c.old_memory[c.memories_to_update[k].name],
                                       Reply(UpdatedBlock)).value]
         IN  call' =
               IF ~reply.ok /\ c.memories_to_update # <<>>
               THEN [call EXCEPT !.h[i].pc = "raised", !.h[i].raised = TRUE,
                                 !.h[i].exchange_failed = TRUE]
               ELSE [call EXCEPT !.h[i].pc = LoopOf(c.new_memories, updated_memories),
                                 !.h[i].todo_add = c.new_memories,
                                 !.h[i].todo_update = updated_memories]
    /\ UNCHANGED <<store, lists, maps, snapshots>>

\* One turn of `for new_memory in new_memories: try force_add_memory`
RaceAddNewMemory(i) ==
    /\ call.h[i].pc = "add"
    /\ LET c == call.h[i]
           r == force_add_memory(c.manager, store, Head(c.todo_add))
       IN  /\ store' = r.store
           /\ call' = [call EXCEPT
                         !.h[i].manager = r.manager,
                         !.h[i].todo_add = Tail(@),
                         !.h[i].skipped = IF r.raised
                                          THEN Append(@, Head(c.todo_add).name) ELSE @,
                         !.h[i].pc = LoopOf(Tail(c.todo_add), c.todo_update)]
    /\ UNCHANGED <<lists, maps, snapshots>>

\* One turn of `for updated_memory in updated_memories: try force_update_memory`
RaceUpdateMemory(i) ==
    /\ call.h[i].pc = "update"
    /\ LET c == call.h[i]
           r == force_update_memory(c.manager, store, Head(c.todo_update))
       IN  /\ store' = r.store
           /\ call' = [call EXCEPT
                         !.h[i].manager = r.manager,
                         !.h[i].todo_update = Tail(@),
                         !.h[i].skipped = IF r.raised
                                          THEN Append(@, Head(c.todo_update).name) ELSE @,
                         !.h[i].pc = LoopOf(<<>>, Tail(c.todo_update))]
    /\ UNCHANGED <<lists, maps, snapshots>>

\* `force_update_relevance_map({memory.name: delta for memory in related_memories})`
\* and the return of the new manager
RaceUpdateRelevance(i) ==
    /\ call.h[i].pc = "relevance"
    /\ \E related_reply \in LiveNamesReplies :
         /\ related_reply.ok
         /\ LET c == call.h[i]
                related_memories == list_related_memories(c.current_memory_list,
                                                          related_reply)
                r == force_update_relevance_map(c.manager, store,
                         delta_map_of(related_memories.value, c.delta))
            IN  /\ Commit(r)
                /\ call' = [call EXCEPT !.h[i].manager = r.manager,
                                        !.h[i].returned = Len(snapshots) + 1,
                                        !.h[i].pc = "done"]

NextRace ==
    \/ \E i \in Holders : RaceFetchAbstracts(i)
    \/ \E i \in Holders : RaceDiscovers(i)
    \/ \E i \in Holders : RaceGatherReturns(i)
    \/ \E i \in Holders : RaceAddNewMemory(i)
    \/ \E i \in Holders : RaceUpdateMemory(i)
    \/ \E i \in Holders : RaceUpdateRelevance(i)

SpecRace == InitRace /\ [][NextRace]_vars

(***************************************************************************)
(* ServerMemorySession over a repository: calls of update_memory, each     *)
(* with the replies of its exchanges.                                      *)
(***************************************************************************)
InitSession ==
    \E delegate \in InitialDelegates :
        /\ store = InMemoryMemoryRepository(delegate)
        /\ lists = <<>>
        /\ maps = <<>>
        /\ snapshots = <<>>
        /\ call = [op |-> "__init__", raised |-> FALSE, store_before |-> <<>>,
                   calls |-> 0, applied |-> <<>>,
                   new_reply |-> Reply(<<>>), to_update_reply |-> Reply(<<>>),
                   single_replies |-> [n \in Names |-> Reply(UpdatedBlock)]]

SessionUpdateMemory ==
    /\ MayCall
    /\ \E new_reply \in NewMemoriesReplies, to_update_reply \in NamesReplies :
         \E single_replies \in SingleReplies(to_update_reply) :
           LET r == session_update_memory(store, new_reply, to_update_reply, single_replies)
           IN  /\ store' = r.store
               /\ call' = [op |-> "session_update_memory", raised |-> r.raised,
                           store_before |-> store, calls |-> call.calls + 1,
                           applied |-> r.applied,
                           new_reply |-> new_reply, to_update_reply |-> to_update_reply,
                           single_replies |-> single_replies]
    /\ UNCHANGED <<lists, maps, snapshots>>

NextSession == SessionUpdateMemory

SpecSession == InitSession /\ [][NextSession]_vars

(***************************************************************************)
(* Properties.                                                             *)
(***************************************************************************)
NamesOf(l) == {l[i].name : i \in 1..Len(l)}
DistinctNames(l) == \A i, j \in 1..Len(l) : i # j => l[i].name # l[j].name
Listed(reply) == IF reply.ok THEN {reply.value[i] : i \in 1..Len(reply.value)} ELSE {}
Min(a, b) == IF a < b THEN a ELSE b
Max(a, b) == IF a > b THEN a ELSE b

\* C1: force_update_relevance_map(D) returns a snapshot whose count of every
\* name n is the invoking snapshot's count of n (0 if absent) plus D[n] for
\* the names of D, and the invoking snapshot's count for every other name.
C1_RelevanceIsAdded ==
    (call.op = "force_update_relevance_map" /\ ~call.raised) =>
        \A n \in Names :
            Get(Relevance(call.returned), n) =
                Get(Relevance(call.self), n) + Get(call.delta_map, n)

\* C2: update_relevance_map(transcript, delta) raises the count of every name
\* the oracle reported as associated by exactly delta (absent counts as 0)
\* and leaves every other count as it was.
C2_AssociatedRaisedByDelta ==
    (call.op = "update_relevance_map" /\ ~call.raised) =>
        \A n \in Names :
            Get(Relevance(call.returned), n) =
                Get(Relevance(call.self), n)
                    + (IF n \in Listed(call.related_reply) THEN call.delta ELSE 0)

RanksBefore(delegate, relevance_map, i, j) ==
    \/ Get(relevance_map, delegate[i].name) > Get(relevance_map, delegate[j].name)
    \/ /\ Get(relevance_map, delegate[i].name) = Get(relevance_map, delegate[j].name)
       /\ i < j

\* visible is the first `limit` stored memories by rank
IsTopRanked(visible, delegate, relevance_map, limit) ==
    /\ Len(visible) = Min(limit, Len(delegate))
    /\ \E pos \in [1..Len(visible) -> 1..Len(delegate)] :
          /\ \A i \in 1..Len(visible) : visible[i] = delegate[pos[i]]
          /\ \A i, j \in 1..Len(visible) :
                i < j => RanksBefore(delegate, relevance_map, pos[i], pos[j])
          /\ \A i \in 1..Len(visible) :
                \A k \in (1..Len(delegate)) \ {pos[j] : j \in 1..Len(visible)} :
                    RanksBefore(delegate, relevance_map, pos[i], k)

C5_LimitIsClamped ==
    call.op = "refresh_visible_memory_list" =>
        Len(Visible(call.returned)) = Min(Max(call.limit, 0), Len(store))

\* Every exchange that full_update issues got a valid reply: the three
\* discovery exchanges and one UpdateSingleMemory per listed stored name.
Issued(c) == Listed(c.to_update_reply) \cap NamesOf(c.store_before)
FullUpdateExchangeFailed(c) ==
    \/ ~c.new_reply.ok
    \/ ~c.related_reply.ok
    \/ ~c.to_update_reply.ok
    \/ \E n \in Issued(c) : ~c.single_replies[n].ok
UpdateExistingExchangeFailed(c) ==
    \/ ~c.to_update_reply.ok
    \/ \E n \in Issued(c) : ~c.single_replies[n].ok

\* C6: when full_update's ExtractNewMemories reply proposes a memory whose
\* name is already in the store, full_update does not raise, the stored
\* record of that name is neither duplicated nor given the proposal's
\* content, and every proposed memory whose name is not in the store is in
\* the store and in the returned snapshot's visible list afterwards.
C6_DuplicateProposalIsSkipped ==
    ( /\ call.op = "full_update"
      /\ ~FullUpdateExchangeFailed(call)
      /\ \E i \in 1..Len(call.new_reply.value) :
            call.new_reply.value[i].name \in NamesOf(call.store_before) ) =>
        /\ ~call.raised
        /\ \A i \in 1..Len(call.new_reply.value) :
              LET n == call.new_reply.value[i].name
                  before == fetch_memory_by_name(call.store_before, n)
                  after == fetch_memory_by_name(store, n)
              IN  IF n \in NamesOf(call.store_before)
                  THEN /\ Cardinality({k \in 1..Len(store) : store[k].name = n}) = 1
                       /\ after.abstract = before.abstract
                       /\ \/ after.memory_block = before.memory_block
                          \/ /\ n \in Issued(call)
                             /\ after.memory_block = call.single_replies[n].value
                  ELSE /\ n \in NamesOf(store)
                       /\ n \in NamesOf(Visible(call.returned))

\* C7: in extract_new_memories a proposed memory whose name already exists
\* is skipped: the operation returns a snapshot, and every proposed memory
\* whose name did not exist is in the store and in the returned visible list.
C7_ExtractSkipsDuplicates ==
    ( /\ call.op = "extract_new_memories"
      /\ call.new_reply.ok
      /\ \E i \in 1..Len(call.new_reply.value) :
            call.new_reply.value[i].name \in NamesOf(call.store_before) ) =>
        /\ ~call.raised
        /\ \A i \in 1..Len(call.new_reply.value) :
              LET n == call.new_reply.value[i].name
              IN  n \notin NamesOf(call.store_before) =>
                      /\ n \in NamesOf(store)
                      /\ n \in NamesOf(Visible(call.returned))

\* C8: if an oracle exchange issued by full_update or by
\* update_existing_memories fails, the operation raises, returns no
\* snapshot, and leaves the store, every snapshot and every list and map as
\* they were.
C8_FanOutIsAllOrNothing ==
    [][( \/ call'.op = "full_update" /\ FullUpdateExchangeFailed(call')
         \/ call'.op = "update_existing_memories" /\ UpdateExistingExchangeFailed(call') ) =>
            /\ call'.raised
            /\ call'.returned = 0
            /\ store' = store
            /\ snapshots' = snapshots
            /\ lists' = lists
            /\ maps' = maps]_vars

\* full_update listed two stored, visible memories to update; the update
\* exchange of one succeeded and that of the other failed.
C8_Witness ==
    /\ call.op = "full_update"
    /\ call.raised
    /\ call.new_reply.ok /\ call.related_reply.ok /\ call.to_update_reply.ok
    /\ Cardinality(Issued(call) \cap NamesOf(Visible(call.self))) = 2
    /\ \E n, k \in Issued(call) : call.single_replies[n].ok /\ ~call.single_replies[k].ok

\* C9: a snapshot never changes: whatever operation is invoked, on whatever
\* snapshot, and whether it returns or raises, every snapshot that exists
\* keeps its visible list (names, order and contents) and its relevance map.
C9_SnapshotsNeverChange ==
    [][/\ Len(snapshots') >= Len(snapshots)
       /\ \A s \in 1..Len(snapshots) :
             /\ snapshots'[s] = snapshots[s]
             /\ lists'[snapshots[s].visible_memories] = lists[snapshots[s].visible_memories]
             /\ maps'[snapshots[s].relevance_map] = maps[snapshots[s].relevance_map]]_vars

\* An oracle-driven operation raised on a snapshot that an earlier operation
\* had returned.
C9_Witness ==
    /\ call.calls = 2
    /\ call.op \in OracleDriven
    /\ call.raised
    /\ call.self = 2
    /\ store # call.store_before

\* The memories whose update is applied: listed by the oracle, stored, and
\* in the visible list of the snapshot the operation was invoked on.
Updated(c) == Issued(c) \cap NamesOf(Visible(c.self))

\* C10: a memory updated through update_existing_memories or full_update is
\* written to the store and to visible with the name and abstract of the
\* record the store held before, and with the oracle's new_memory_block; no
\* stored record changes in any other way.
C10_UpdatePreservesIdentity ==
    call.op \in {"update_existing_memories", "full_update"} =>
        /\ \A n \in NamesOf(call.store_before) :
              LET before == fetch_memory_by_name(call.store_before, n)
                  after == fetch_memory_by_name(store, n)
              IN  /\ after # None
                  /\ after.abstract = before.abstract
                  /\ after.memory_block # before.memory_block =>
                        /\ n \in Updated(call)
                        /\ call.single_replies[n].ok
                        /\ after.memory_block = call.single_replies[n].value
        /\ ~call.raised =>
              \A n \in Updated(call) :
                  LET before == fetch_memory_by_name(call.store_before, n)
                      written == Memory(n, before.abstract, call.single_replies[n].value)
                  IN  /\ fetch_memory_by_name(store, n) = written
                      /\ fetch_memory_by_name(Visible(call.returned), n) = written

\* A stored, visible memory got a new block.
C10_Witness ==
    /\ call.op \in {"update_existing_memories", "full_update"}
    /\ ~call.raised
    /\ \E n \in Updated(call) :
          /\ fetch_memory_by_name(call.store_before, n).memory_block # UpdatedBlock
          /\ fetch_memory_by_name(store, n).memory_block = UpdatedBlock
          /\ fetch_memory_by_name(store, n).abstract = "abstract0"

\* The operation recorded in c updates or removes the stored record of n.
UpdatesOrRemoves(c, n) ==
    \/ c.op = "force_update_memory" /\ c.memory.name = n
    \/ c.op = "delete_memory" /\ c.name = n
    \/ c.op \in {"update_existing_memories", "full_update"} /\ n \in Issued(c)

\* C11: after a successful force_add_memory(m) the store's
\* fetch_memory_by_name(m.name) returns m, with the abstract and the
\* memory_block that were added, and the record fetched for a name stays the
\* same through every operation that does not update or remove that name.
C11_AddedMemoryIsFetched ==
    [][/\ (call'.op = "force_add_memory" /\ ~call'.raised) =>
              fetch_memory_by_name(store', call'.memory.name) = call'.memory
       /\ \A n \in Names :
              LET before == fetch_memory_by_name(store, n)
              IN  (before # None /\ fetch_memory_by_name(store', n) # before) =>
                      UpdatesOrRemoves(call', n)]_vars

\* A memory added by force_add_memory as the first operation is still
\* fetched as it was added after a second operation on another name.
C11_Witness ==
    /\ call.calls = 2
    /\ call.oracle_calls = 0
    /\ call.op = "force_update_memory"
    /\ ~call.raised
    /\ Visible(1) # <<>>
    /\ \E n \in Names \ NamesOf(Visible(1)) :
          /\ n # call.memory.name
          /\ fetch_memory_by_name(call.store_before, n) = InputMemory(n)
          /\ fetch_memory_by_name(store, n) = InputMemory(n)

\* Every name in the visible list of every snapshot is the name of a stored
\* memory.
VisibleInStore ==
    \A s \in 1..Len(snapshots) : NamesOf(Visible(s)) \subseteq NamesOf(store)

\* C12: a manager is constructed with every visible name in the store, and
\* every manager operation (every operation but the DELETE endpoint),
\* whether it returns or raises, taken while every visible name of every
\* snapshot is in the store, leaves every visible name of every snapshot,
\* the returned one included, in the store.
C12_VisibleNamesAreStored ==
    [][(VisibleInStore /\ call'.op # "delete_memory") => VisibleInStore']_vars

\* extract_new_memories added a proposed memory to the store and then raised
\* on a duplicate, on a chain of two snapshots with visible memories.
C12_Witness ==
    /\ call.op = "extract_new_memories"
    /\ call.raised
    /\ store # call.store_before
    /\ Len(snapshots) = 2
    /\ Visible(2) # <<>>
    /\ VisibleInStore

\* C13: after a memory is removed by name through the delete path, the name
\* is absent from the store and from the visible list of the current (the
\* latest) snapshot.
C13_RemoveClearsVisible ==
    (call.op = "delete_memory" /\ ~call.raised) =>
        /\ call.name \notin NamesOf(store)
        /\ call.name \notin NamesOf(Visible(Len(snapshots)))

\* C14: when the oracle lists for update a stored memory that is not in the
\* visible list of the snapshot, so that force_update_memory fails on the
\* absent name, full_update and update_existing_memories raise.
C14_NotFoundIsPropagated ==
    ( \/ /\ call.op = "full_update"
          /\ ~FullUpdateExchangeFailed(call)
          /\ Issued(call) \ NamesOf(Visible(call.self)) # {}
      \/ /\ call.op = "update_existing_memories"
          /\ ~UpdateExistingExchangeFailed(call)
          /\ Issued(call) \ NamesOf(Visible(call.self)) # {} ) =>
        call.raised

\* The text from the first "{" to the last "}" of value, if there is one.
OuterBraces(value) ==
    LET opens == {i \in 1..Len(value) : value[i] = "{"}
        closes == {j \in 1..Len(value) : value[j] = "}"}
        first == IF opens = {} THEN 0 ELSE CHOOSE a \in opens : \A b \in opens : a <= b
        last == IF closes = {} THEN 0 ELSE CHOOSE a \in closes : \A b \in closes : a >= b
    IN  IF first > 0 /\ first < last
        THEN [found |-> TRUE, text |-> SubSeq(value, first, last)]
        ELSE [found |-> FALSE, text |-> <<>>]

\* C15: the payload of an exchange is the parse of the response text from
\* its first "{" to its last "}"; generate is called once; if there is no
\* "{" followed by a "}", or that text is not valid JSON, or the JSON does
\* not match the response type, the exchange fails and the enclosing manager
\* operation raises, returns no snapshot and leaves the store as it was.
C15_CastTakesOuterBraces ==
    (call.op # "generate" /\ "response_str" \in DOMAIN call) =>
        LET outer == OuterBraces(call.response_str)
            parsed == json_loads(outer.text)
            valid == /\ outer.found
                     /\ parsed.ok
                     /\ model_validate(call.response_type, parsed.value).ok
        IN  /\ call.cast.generate_calls = 1
            /\ IF valid
               THEN /\ call.cast.ok
                    /\ call.cast.value = parsed.value
                    /\ ~call.raised
               ELSE /\ ~call.cast.ok
                    /\ call.raised
                    /\ call.returned = 0
                    /\ store = call.store_before

\* A response with text before and after the JSON object is accepted and
\* the update it carries is applied.
C15_Witness ==
    /\ call.op = "update_existing_memories"
    /\ "response_str" \in DOMAIN call
    /\ call.response_str = <<"x", "{", "s", "}", "x">>
    /\ call.cast.ok
    /\ ~call.raised
    /\ fetch_memory_by_name(store, "A").memory_block = UpdatedBlock

\* C16: add_memory of a stored name fails with the duplicate-key ValueError;
\* update_memory and the removes of a name that is not stored fail with the
\* not-found ValueError; a failing call leaves the store's contents and
\* order as they were; the store never holds two records of one name.
C16_StoreContract ==
    call.op \in {"add_memory", "update_memory", "remove_memory", "remove_memory_by_name"} =>
        /\ (call.op = "add_memory" /\ call.name \in NamesOf(call.store_before)) =>
                /\ call.raised
                /\ call.error = "ValueError"
        /\ (call.op # "add_memory" /\ call.name \notin NamesOf(call.store_before)) =>
                /\ call.raised
                /\ call.error = "ValueError"
        /\ call.raised => store = call.store_before
        /\ DistinctNames(store)

\* C17: in every snapshot, every count of the relevance map is a
\* non-negative integer.
C17_CountsAreNonNegative ==
    \A s \in 1..Len(snapshots) :
        \A n \in DOMAIN Relevance(s) : Relevance(s)[n] >= 0

\* The relevance map after force_update_relevance_map(delta_map) on manager.
Folded(manager, delta_map) ==
    force_update_relevance_map(manager, store, delta_map).manager
PointwiseSum(d1, d2) ==
    [n \in (DOMAIN d1) \cup (DOMAIN d2) |-> Get(d1, n) + Get(d2, n)]

\* C18: for the snapshot and the delta map D1 of a force_update_relevance_map
\* call and every delta map D2, applying D1 then D2 gives the same relevance
\* map as applying D2 then D1, and the same as applying once the pointwise
\* sum of D1 and D2.
C18_FoldIsCommutative ==
    (call.op = "force_update_relevance_map" /\ ~call.raised) =>
        \A d2 \in DeltaMaps :
            LET self == Load(call.self)
                d1 == call.delta_map
                d1_then_d2 == Folded(Folded(self, d1), d2).relevance_map
                d2_then_d1 == Folded(Folded(self, d2), d1).relevance_map
            IN  /\ Relevance(call.returned) = Folded(self, d1).relevance_map
                /\ d1_then_d2 = d2_then_d1
                /\ d1_then_d2 = Folded(self, PointwiseSum(d1, d2)).relevance_map

\* C19: update_visible_memory_list(transcript, limit, delta) returns the
\* snapshot that refresh_visible_memory_list(limit) returns on the snapshot
\* of update_relevance_map(transcript, delta): its relevance map is the
\* updated one, and its visible list is ranked by the updated counts; if
\* the relevance update raises, so does the operation.
C19_UpdateVisibleIsComposition ==
    call.op = "update_visible_memory_list" =>
        LET updated == update_relevance_map(Load(call.self), call.store_before,
                                            call.related_reply, call.delta)
            refreshed == refresh_visible_memory_list(updated.manager, updated.store,
                                                     call.limit)
        IN  IF updated.raised
            THEN /\ call.raised
                 /\ call.returned = 0
                 /\ store = call.store_before
            ELSE /\ ~call.raised
                 /\ store = call.store_before
                 /\ Relevance(call.returned) = updated.manager.relevance_map
                 /\ Visible(call.returned) = refreshed.manager.visible_memories
                 /\ call.limit >= 0 =>
                        IsTopRanked(Visible(call.returned), store,
                                    Relevance(call.returned), call.limit)

\* The delta of the call changed the ranking: the visible list differs from
\* the one the counts of the invoking snapshot select.
C19_Witness ==
    /\ call.op = "update_visible_memory_list"
    /\ ~call.raised
    /\ call.limit >= 1
    /\ Relevance(call.returned) # Relevance(call.self)
    /\ Visible(call.returned) #
          refresh_visible_memory_list(Load(call.self), store, call.limit).manager.visible_memories

\* The three discovery branches of the full_update in c have completed:
\* both listing exchanges, the update-candidate discovery, and every
\* per-memory update it started.
DiscoveryComplete(c) ==
    /\ c.new_memories.status = "done"
    /\ c.related_memories.status = "done"
    /\ c.memories_to_update.status = "done"
    /\ \A n \in {c.memories_to_update.value[i].name :
                    i \in 1..Len(c.memories_to_update.value)} :
          c.updated[n].status = "done"

\* The place of a call in full_update's order of application.
ApplyRank(applied_call) ==
    CASE applied_call = "force_add_memory" -> 1
      [] applied_call = "force_update_memory" -> 2
      [] applied_call = "force_update_relevance_map" -> 3

\* C20: in full_update every discovery branch that has started was given the
\* listing of the store's abstracts taken at the start of the call; a step
\* that changes the store, applies an addition, an update or the relevance
\* delta, or returns the snapshot is taken only after all three branches
\* have completed; and every addition is applied before any content update,
\* every content update before the relevance delta.
C20_DiscoveryThenAddThenUpdate ==
    [][/\ \A branch \in {call'.new_memories, call'.related_memories,
                         call'.memories_to_update} :
             branch.status # "pending" =>
                 branch.given = fetch_all_memories_abstract(call'.store_before)
       /\ ( \/ store' # store
            \/ call'.applied # call.applied
            \/ snapshots' # snapshots ) => DiscoveryComplete(call)
       /\ \A i, j \in 1..Len(call'.applied) :
             i < j => /\ ApplyRank(call'.applied[i]) <= ApplyRank(call'.applied[j])
                      /\ ApplyRank(call'.applied[i]) < 3]_vars

\* A full_update that added a memory, updated another and returned.
C20_Witness ==
    /\ "pc" \in DOMAIN call
    /\ call.pc = "done"
    /\ \E i, j \in 1..Len(call.applied) :
          /\ call.applied[i] = "force_add_memory"
          /\ call.applied[j] = "force_update_memory"
    /\ Len(store) > Len(call.store_before)
    /\ \E n \in NamesOf(call.store_before) :
          fetch_memory_by_name(store, n).memory_block = UpdatedBlock
    /\ call.related_memories.value # <<>>

\* C21: update_existing_memories applies the updates in the order in which
\* the oracle listed the names: when it lists two different stored, visible
\* names, the returned visible list ends with the first listed name and
\* then the second.
C21_UpdatesInOracleOrder ==
    ( /\ call.op = "update_existing_memories"
      /\ ~call.raised
      /\ Len(call.to_update_reply.value) = 2
      /\ call.to_update_reply.value[1] # call.to_update_reply.value[2]
      /\ Listed(call.to_update_reply) \subseteq Updated(call) ) =>
        LET visible == Visible(call.returned)
        IN  /\ visible[Len(visible) - 1].name = call.to_update_reply.value[1]
            /\ visible[Len(visible)].name = call.to_update_reply.value[2]

\* C22: with every visible name of the snapshot in the store,
\* update_existing_memories whose exchanges all succeed does not raise,
\* whatever subset of the store the visible list holds.
C22_UpdateOfStoredNameSucceeds ==
    ( /\ call.op = "update_existing_memories"
      /\ ~UpdateExistingExchangeFailed(call)
      /\ NamesOf(Visible(call.self)) \subseteq NamesOf(call.store_before) ) =>
        ~call.raised

\* C23: when update_existing_memories or extract_new_memories raises, the
\* store is as it was before the call.
C23_AbortAppliesNothing ==
    (call.op \in {"update_existing_memories", "extract_new_memories"} /\ call.raised) =>
        store = call.store_before

\* C24: an operation that returns a snapshot gives it a visible list and a
\* relevance map that are objects distinct from those of the snapshot it
\* was invoked on.
C24_ContainersAreNotShared ==
    (call.self > 0 /\ call.returned > 0) =>
        /\ snapshots[call.returned].visible_memories # snapshots[call.self].visible_memories
        /\ snapshots[call.returned].relevance_map # snapshots[call.self].relevance_map

\* The calls of force_update_memory that the full_update in c has made.
UpdatesApplied(c) ==
    Cardinality({i \in 1..Len(c.applied) : c.applied[i] = "force_update_memory"})

C26_FetchMissIsSkipped ==
    ("pc" \in DOMAIN call /\ call.op = "refresh_visible_memory_list"
                          /\ call.pc = "done") =>
        LET visible == Visible(call.returned)
            found == {i \in 1..Len(call.fetched) : call.fetched[i].memory # None}
            nth(k) == CHOOSE i \in found : Cardinality({j \in found : j < i}) = k - 1
        IN  /\ ~call.raised
            /\ Len(call.fetched) = Len(call.top_memories)
            /\ \A i \in 1..Len(call.fetched) :
                  call.fetched[i].name = call.top_memories[i].name
            /\ Len(visible) = Cardinality(found)
            /\ \A k \in 1..Len(visible) : visible[k] = call.fetched[nth(k)].memory
            /\ \A k \in 1..Len(visible) : visible[k] # None
            /\ \A i \in 1..Len(call.fetched) :
                  call.fetched[i].memory = None =>
                      \A k \in 1..Len(visible) : visible[k].name # call.fetched[i].name
            /\ Len(visible) <= Len(call.top_memories)

\* A selected memory was deleted between the listing and its fetch: the
\* refresh returned a shorter, non-empty visible list without it.
C26_Witness ==
    /\ "pc" \in DOMAIN call
    /\ call.op = "refresh_visible_memory_list"
    /\ call.pc = "done"
    /\ call.limit >= 2
    /\ \E i \in 1..Len(call.fetched) :
          /\ call.fetched[i].memory = None
          /\ call.fetched[i].name \notin NamesOf(Visible(call.returned))
    /\ Visible(call.returned) # <<>>
    /\ Len(Visible(call.returned)) < Len(call.top_memories)

\* The operation has returned or raised.
Completed == call.pc \in {"done", "raised"}

\* The generate call that never returns has been issued and is outstanding.
HungIssued ==
    \/ call.hung = "extract" /\ call.new_memories.status = "running"
    \/ call.hung = "related" /\ call.related_memories.status = "running"
    \/ call.hung = "to_update" /\ call.memories_to_update.status = "running"
    \/ call.hung \in Names /\ call.updated[call.hung].status = "running"

\* An exchange of the fan-out has failed.
ExchangeFailed ==
    \/ call.new_memories.status = "failed"
    \/ call.related_memories.status = "failed"
    \/ call.memories_to_update.status = "failed"
    \/ \E n \in Names : call.updated[n].status = "failed"

\* C27 as stated: every high-level operation eventually returns or raises
\* unless a generate call it issued never returns; and while a generate call
\* of full_update's fan-out is outstanding for ever, full_update has neither
\* returned nor raised and the store is as it was.
C27_HungCallHangsFullUpdate ==
    /\ <>(Completed \/ HungIssued)
    /\ []((call.op = "full_update" /\ HungIssued) =>
              (~Completed /\ store = call.store_before))

\* C27, amended: every high-level operation eventually returns or raises
\* unless a generate call it issued never returns; and while a generate call
\* of full_update's fan-out is outstanding for ever, full_update has not
\* returned a manager and has made no call that changes the store, and it
\* has raised only if another exchange of the fan-out failed.
C27_HungCallWithholdsResults ==
    /\ <>(Completed \/ HungIssued)
    /\ []((call.op = "full_update" /\ HungIssued) =>
              /\ call.pc # "done"
              /\ call.returned = 0
              /\ store = call.store_before
              /\ call.applied = <<>>
              /\ (call.pc = "raised" => ExchangeFailed))

\* full_update is stuck in its gather: one exchange is outstanding for ever,
\* the others have returned memories to add and to update, and nothing has
\* been applied.
C27_Witness ==
    /\ "hung" \in DOMAIN call
    /\ call.op = "full_update"
    /\ call.pc = "gather"
    /\ call.hung = "related"
    /\ HungIssued
    /\ call.new_memories.status = "done"
    /\ call.new_memories.value # <<>>
    /\ call.memories_to_update.status = "done"
    /\ call.memories_to_update.value # <<>>
    /\ \A n \in Names : call.updated[n].status \in {"none", "done"}
    /\ store = call.store_before

\* C28: once refresh_visible_memory_list or update_visible_memory_list has
\* returned a snapshot for a limit >= 0, the snapshot that force_add_memory,
\* extract_new_memories or full_update returns when invoked on it has at most
\* limit visible memories, as has the refreshed snapshot itself.
C28_VisibleStaysWithinLimit ==
    [][(/\ call.op \in {"refresh_visible_memory_list", "update_visible_memory_list"}
        /\ ~call.raised
        /\ call.limit >= 0
        /\ call'.op \in {"force_add_memory", "extract_new_memories", "full_update"}
        /\ call'.self = call.returned
        /\ ~call'.raised)
       => /\ Len(Visible(call.returned)) <= call.limit
          /\ Len(lists'[snapshots'[call'.returned].visible_memories]) <= call.limit]_vars

\* C29: the manager an operation returns has every name in its relevance map
\* that the manager it was invoked on had, whether or not the name is still
\* in the store; and the visible list that refresh_visible_memory_list (alone
\* or in update_visible_memory_list) returns holds only names that are in the
\* store.
C29_RelevanceKeysOnlyGrow ==
    (call.self >= 1 /\ call.returned >= 1 /\ "pc" \notin DOMAIN call) =>
        /\ DOMAIN Relevance(call.self) \subseteq DOMAIN Relevance(call.returned)
        /\ call.op \in {"refresh_visible_memory_list", "update_visible_memory_list"} =>
              NamesOf(Visible(call.returned)) \subseteq NamesOf(store)

\* A refresh with room for every ranked name, after one of the three stored
\* memories was deleted: the relevance map still has the deleted name with
\* its count; the name is not made visible, the two stored names are.
C29_Witness ==
    /\ call.op = "refresh_visible_memory_list"
    /\ "pc" \notin DOMAIN call
    /\ call.returned >= 1
    /\ call.calls = 2
    /\ Len(store) = 2
    /\ store[1] = StoredMemory("C")
    /\ \E n \in DOMAIN Relevance(call.returned) :
          /\ n \notin NamesOf(store)
          /\ Relevance(call.returned)[n] > 0
          /\ n \notin NamesOf(Visible(call.returned))
    /\ Len(Visible(call.returned)) = 2
    /\ call.limit > Len(Visible(call.returned))

\* C30: force_add_memory and force_update_memory return a manager with the
\* relevance map of the one they were invoked on; force_update_relevance_map
\* and update_relevance_map return a manager with the same visible list and
\* leave the store as it was; refresh_visible_memory_list returns a manager
\* with the same relevance map, leaves the store as it was, and returns the
\* visible list it would return on a manager with no visible memories.
C30_FrameConditions ==
    (call.self >= 1 /\ "pc" \notin DOMAIN call) =>
        /\ (call.op \in {"force_add_memory", "force_update_memory"} /\ ~call.raised) =>
              Relevance(call.returned) = Relevance(call.self)
        /\ call.op \in {"force_update_relevance_map", "update_relevance_map"} =>
              /\ store = call.store_before
              /\ ~call.raised => Visible(call.returned) = Visible(call.self)
        /\ call.op = "refresh_visible_memory_list" =>
              /\ store = call.store_before
              /\ ~call.raised
              /\ Relevance(call.returned) = Relevance(call.self)
              /\ Visible(call.returned) =
                    refresh_visible_memory_list(
                        MemoryManager(<<>>, 0, Relevance(call.self), 0),
                        call.store_before, call.limit).manager.visible_memories

\* A refresh on a manager that has visible memories and counts, with a limit
\* that leaves a visible memory out: the new visible list drops it, and the
\* relevance map and the store are as before.
C30_Witness ==
    /\ call.op = "refresh_visible_memory_list"
    /\ "pc" \notin DOMAIN call
    /\ call.returned >= 1
    /\ Visible(call.self) # <<>>
    /\ DOMAIN Relevance(call.self) # {}
    /\ call.limit >= 1
    /\ \E i \in 1..Len(Visible(call.self)) :
          Visible(call.self)[i].name \notin NamesOf(Visible(call.returned))
    /\ Visible(call.returned) # <<>>
    /\ store # <<>>

\* The entries of l other than the one named as memory, in their order.
Others(l, memory) == SelectSeq(l, LAMBDA x : ~MemoryEq(x, memory))

\* C31: a force_update_memory(m) that returns keeps the length of visible,
\* keeps the other visible entries in their order and puts the new value of
\* m last; the store likewise keeps its other records in order and has the
\* new value of m last, so that the ranking of refresh_visible_memory_list
\* has m behind every other memory with the same relevance count.
C31_UpdateMovesToEnd ==
    (call.op = "force_update_memory" /\ ~call.raised /\ "pc" \notin DOMAIN call) =>
        LET before == Visible(call.self)
            after == Visible(call.returned)
            m == call.memory
            counts == Relevance(call.returned)
            ranked == sorted(fetch_all_memories_abstract(store), counts)
        IN  /\ Len(after) = Len(before)
            /\ after[Len(after)] = m
            /\ SubSeq(after, 1, Len(after) - 1) = Others(before, m)
            /\ Len(store) = Len(call.store_before)
            /\ store[Len(store)] = m
            /\ SubSeq(store, 1, Len(store) - 1) = Others(call.store_before, m)
            /\ \A i, j \in 1..Len(ranked) :
                  (/\ ranked[j].name = m.name
                   /\ ranked[i].name # m.name
                   /\ Get(counts, ranked[i].name) = Get(counts, m.name)) => i < j

\* The first of two visible and stored memories with equal counts was
\* updated: it is now the last of both lists.
C31_Witness ==
    /\ call.op = "force_update_memory"
    /\ ~call.raised
    /\ "pc" \notin DOMAIN call
    /\ Len(Visible(call.self)) >= 2
    /\ MemoryEq(Visible(call.self)[1], call.memory)
    /\ MemoryEq(call.store_before[1], call.memory)
    /\ Len(store) >= 2
    /\ store[Len(store)] = call.memory
    /\ \E n \in NamesOf(store) \ {call.memory.name} :
          Get(Relevance(call.returned), n) = Get(Relevance(call.returned), call.memory.name)

\* C32: a force_update_memory(m) on a snapshot whose visible list has no
\* entry named as m raises and leaves the store, and so the stored record of
\* that name, as it was; one whose visible list has the name while the store
\* has not raises too, with the store unchanged and no snapshot created; the
\* store changes only if the name is visible.
C32_UpdateWritesOnlyIfVisible ==
    [][(call'.op = "force_update_memory" /\ "pc" \notin DOMAIN call') =>
          LET visible == Visible(call'.self)
              m == call'.memory
          IN  /\ ~ListContains(visible, m) =>
                    /\ call'.raised
                    /\ UNCHANGED <<store, lists, maps, snapshots>>
              /\ (ListContains(visible, m) /\ ~ListContains(store, m)) =>
                    /\ call'.raised
                    /\ call'.returned = 0
                    /\ UNCHANGED <<store, lists, maps, snapshots>>
              /\ store' # store => ListContains(visible, m)]_vars

\* An update of a stored memory that is not visible was refused: the store
\* still has the record with its old content.
C32_Witness ==
    /\ call.op = "force_update_memory"
    /\ "pc" \notin DOMAIN call
    /\ call.raised
    /\ ~ListContains(Visible(call.self), call.memory)
    /\ fetch_memory_by_name(store, call.memory.name) = StoredMemory(call.memory.name)
    /\ store = call.store_before

\* An update of a visible memory that was deleted from the store was
\* refused: the store is as it was.
C32_WitnessDeleted ==
    /\ call.op = "force_update_memory"
    /\ "pc" \notin DOMAIN call
    /\ call.raised
    /\ ListContains(Visible(call.self), call.memory)
    /\ ~ListContains(store, call.memory)
    /\ store = call.store_before

\* C33: in a chain of manager operations of a single owner that all return,
\* started with visible memories that are records of the store, every memory in the
\* visible list of the current snapshot is the record the store holds under
\* that name: same abstract, same memory_block.
C33_VisibleShowsStoredContent ==
    LET visible == Visible(Len(snapshots))
    IN  \A i \in 1..Len(visible) :
          LET stored == fetch_memory_by_name(store, visible[i].name)
          IN  /\ stored # None
              /\ stored.abstract = visible[i].abstract
              /\ stored.memory_block = visible[i].memory_block

\* After two successful calls of the owner the current snapshot shows a
\* memory whose block an update has rewritten, and one with the content it
\* was stored with.
C33_Witness ==
    /\ call.calls = 2
    /\ ~call.raised
    /\ call.returned = Len(snapshots)
    /\ Len(snapshots) = 3
    /\ \E i, j \in 1..Len(Visible(Len(snapshots))) :
          /\ Visible(Len(snapshots))[i].memory_block = UpdatedBlock
          /\ Visible(Len(snapshots))[j] = StoredMemory(Visible(Len(snapshots))[j].name)

\* C34: while two full_update calls of two holders overlap on one store, in
\* any interleaving of their steps, no two records of the store and no two
\* visible memories of any snapshot, returned or held, have the same name;
\* and a full_update raises only when one of its exchanges failed, so that an
\* addition or an update that comes second on a name is skipped.
C34_RacesKeepNamesUnique ==
    ("h" \in DOMAIN call) =>
        /\ DistinctNames(store)
        /\ \A s \in 1..Len(snapshots) : DistinctNames(Visible(s))
        /\ \A i \in Holders :
              /\ DistinctNames(call.h[i].manager.visible_memories)
              /\ call.h[i].raised => call.h[i].exchange_failed
              /\ call.h[i].pc = "done" =>
                    /\ ~call.h[i].raised
                    /\ Visible(call.h[i].returned) = call.h[i].manager.visible_memories

\* Both calls proposed the same new name and both have returned: one added
\* the memory and shows it, the other skipped its addition, and the store has
\* the name once.
C34_Witness ==
    /\ "h" \in DOMAIN call
    /\ \A i \in Holders : call.h[i].pc = "done"
    /\ \E i, j \in Holders :
          /\ i # j
          /\ call.h[i].new_memories # <<>>
          /\ NamesOf(call.h[i].new_memories) = NamesOf(call.h[j].new_memories)
          /\ NamesOf(call.h[i].new_memories) \cap NamesOf(call.store_before) = {}
          /\ call.h[i].skipped = <<>>
          /\ NamesOf(call.h[i].new_memories) \subseteq NamesOf(Visible(call.h[i].returned))
          /\ call.h[j].skipped # <<>>
          /\ NamesOf(call.h[j].new_memories) \cap NamesOf(Visible(call.h[j].returned)) = {}
    /\ DistinctNames(store)

\* An exchange of the ServerMemorySession.update_memory just made failed.
SessionExchangeFailed ==
    \/ ~call.new_reply.ok
    \/ ~call.to_update_reply.ok
    \/ \E n \in Listed(call.to_update_reply) \cap NamesOf(call.store_before) :
          ~call.single_replies[n].ok

\* The position of the first proposed memory whose name the store has when
\* its addition is made (0 if there is none).
FirstTaken(proposed, stored) ==
    LET taken == {k \in 1..Len(proposed) :
                     \/ proposed[k].name \in NamesOf(stored)
                     \/ \E j \in 1..(k - 1) : proposed[j].name = proposed[k].name}
    IN  IF taken = {} THEN 0 ELSE CHOOSE k \in taken : \A j \in taken : k <= j

\* C35: a ServerMemorySession.update_memory of which an exchange failed
\* raises with the store as it was and no call made on it; otherwise no
\* addition is made after an update; and if a proposed memory has a name the
\* store already has, the call raises at that addition: the store is the one
\* it was with the memories proposed before it appended, and no update was
\* made.  If there is no such memory the call returns with every proposed
\* memory added and every listed memory updated.
C35_SessionUpdateAddsThenUpdates ==
    (call.op = "session_update_memory") =>
        LET proposed == call.new_reply.value
            k == FirstTaken(proposed, call.store_before)
            added(n) == [op |-> "add_memory", name |-> n]
            updates == {j \in 1..Len(call.applied) : call.applied[j].op = "update_memory"}
            adds == {j \in 1..Len(call.applied) : call.applied[j].op = "add_memory"}
        IN  IF SessionExchangeFailed
            THEN call.raised /\ store = call.store_before /\ call.applied = <<>>
            ELSE /\ \A a \in adds, u \in updates : a < u
                 /\ k > 0 =>
                       /\ call.raised
                       /\ store = call.store_before \o SubSeq(proposed, 1, k - 1)
                       /\ call.applied = [j \in 1..k |-> added(proposed[j].name)]
                       /\ updates = {}
                 /\ k = 0 =>
                       /\ ~call.raised
                       /\ \A j \in 1..Len(proposed) :
                             fetch_memory_by_name(store, proposed[j].name) = proposed[j]
                       /\ \A n \in Listed(call.to_update_reply) \cap NamesOf(call.store_before) :
                             /\ fetch_memory_by_name(store, n).memory_block = UpdatedBlock
                             /\ \E u \in updates : call.applied[u].name = n
                       /\ Len(call.applied) = Len(proposed) +
                             Cardinality(Listed(call.to_update_reply)
                                         \cap NamesOf(call.store_before))

\* The second proposed memory has a stored name and a stored memory was to
\* be updated: the call raised with the first proposed memory added and the
\* old block of the memory to update still in the store.
C35_Witness ==
    /\ call.op = "session_update_memory"
    /\ call.raised
    /\ ~SessionExchangeFailed
    /\ FirstTaken(call.new_reply.value, call.store_before) = 2
    /\ Len(store) = Len(call.store_before) + 1
    /\ \E n \in Listed(call.to_update_reply) \cap NamesOf(call.store_before) :
          fetch_memory_by_name(store, n) = StoredMemory(n)

=============================================================================
